---- MODULE Spec2Model ----
(***************************************************************************)
(* Model of the Phantom scheduler core (scheduler/services.py): the        *)
(* SchedulingEngine's pure functions (detect_conflicts, find_free_slots,   *)
(* resolve_conflicts) and its persisting entry points (optimize_schedule,  *)
(* create_exam_study_sessions, bulk_update_events, bulk_delete_events)     *)
(* over a store of Event / Category / SchedulingLog rows.                  *)
(*                                                                         *)
(* Instants are integers counted in seconds; a timedelta is a number of    *)
(* seconds.                                                                *)
(***************************************************************************)
EXTENDS Integers, Sequences, FiniteSets, TLC

VARIABLES
    events,      \* the list handed to the engine's pure functions
    phase,       \* "input" | "detected" | "resolved" | "searched"
    conflicts,   \* result of detect_conflicts(events): sequence of <<id_a, id_b>>
    resolved,    \* result of resolve_conflicts(events) with its two work lists
                 \* and the caller's list after the call
    search,      \* arguments and result of find_free_slots(.., events)
    db_events,   \* persisted Event rows: id -> row
    db_logs,     \* persisted SchedulingLog rows, oldest first
    db_categories, \* names of the persisted Category rows
    next_id,     \* next primary key of the Event table
    call,        \* the engine entry point being executed, and how it ended
    request,     \* the request of the API being served, if any
    db_tokens,   \* users whose google_calendar_token is set
    remote,      \* requests sent to the remote calendar, oldest first
    text,        \* the text handed to TemporalExpressionParser.parse: words
    reference_time, \* the parser's reference_time, on the user's wall clock
    user_timezone,  \* the parser's user_timezone
    parsed       \* how parse(text) ended: raised, or the ranges returned

engineVars == <<events, phase, conflicts, resolved, search>>

storeVars ==
    <<db_events, db_logs, db_categories, next_id, call, request, db_tokens,
      remote>>

parserVars == <<text, reference_time, user_timezone, parsed>>

vars == <<events, phase, conflicts, resolved, search,
          db_events, db_logs, db_categories, next_id, call, request,
          db_tokens, remote,
          text, reference_time, user_timezone, parsed>>

---------------------------------------------------------------------------
(* Bounds of the explored inputs *)

MaxEvents == 3      \* longest input list
MaxStart == 1       \* latest start instant of an input event, in ticks
MaxDur == 2         \* longest ordinary duration of an input event, in ticks
MaxDbEvents == 2    \* most Event rows created before an engine call
MaxWords == 3       \* longest text handed to the parser, in words
MaxRefDay == 6      \* latest day of the parser's reference time (day 0: Monday)

---------------------------------------------------------------------------
(* Program constants *)

SecondsPerMinute == 60      \* duration.total_seconds() / 60, timedelta(minutes=..)
HorizonDays == 30           \* timedelta(days=30)
StudyHour == 14             \* study_start.replace(hour=14, ...)
SessionMinutes == 120       \* session_duration_minutes: int = 120

SecondsPerHour == 60 * SecondsPerMinute
SecondsPerDay == 24 * SecondsPerHour
Horizon == HorizonDays * SecondsPerDay

\* Granularity of the explored instants: a third of a minute, so that
\* durations that are not a whole number of minutes occur.
Tick == SecondsPerMinute \div 3

\* Category.priority_level of the default categories.
priority_level(name) ==
    CASE name = "Exam" -> 5
      [] name = "Study" -> 4
      [] name = "Gym" -> 3
      [] name = "Social" -> 2
      [] name = "Gaming" -> 1

CategoryNames == {"Exam", "Study", "Gym", "Social", "Gaming"}

---------------------------------------------------------------------------
(* Sequence helpers *)

Front(s) == SubSeq(s, 1, Len(s) - 1)
Last(s) == s[Len(s)]
Range(s) == {s[i] : i \in 1..Len(s)}

---------------------------------------------------------------------------
(* sorted(events, key=lambda e: e.start_time): Python's sort is stable *)

RECURSIVE InsertByStart(_, _)
InsertByStart(sorted, e) ==
    IF sorted = <<>> THEN <<e>>
    ELSE IF Last(sorted).start_time <= e.start_time THEN Append(sorted, e)
    ELSE Append(InsertByStart(Front(sorted), e), Last(sorted))

RECURSIVE SortedByStartOf(_)
SortedByStartOf(evs) ==
    IF evs = <<>> THEN <<>>
    ELSE InsertByStart(SortedByStartOf(Front(evs)), Last(evs))

NotSortedByStart(evs) == evs

SortByStart(evs) == SortedByStartOf(evs)

(* sorted(events, key=lambda e: (-e.category.priority_level, e.start_time)) *)

PriorityKeyLeq(a, b) ==
    \/ -priority_level(a.category) < -priority_level(b.category)
    \/ /\ -priority_level(a.category) = -priority_level(b.category)
       /\ a.start_time <= b.start_time

RECURSIVE InsertByPriority(_, _)
InsertByPriority(sorted, e) ==
    IF sorted = <<>> THEN <<e>>
    ELSE IF PriorityKeyLeq(Last(sorted), e) THEN Append(sorted, e)
    ELSE Append(InsertByPriority(Front(sorted), e), Last(sorted))

RECURSIVE SortByPriority(_)
SortByPriority(evs) ==
    IF evs = <<>> THEN <<>>
    ELSE InsertByPriority(SortByPriority(Front(evs)), Last(evs))

---------------------------------------------------------------------------
(* SchedulingEngine.events_overlap / get_event_duration *)

events_overlap(event1, event2) ==
    /\ event1.start_time < event2.end_time
    /\ event2.start_time < event1.end_time

get_event_duration(event) == event.end_time - event.start_time

---------------------------------------------------------------------------
(* SchedulingEngine.detect_conflicts *)

\* the inner loop "for j in range(i + 1, len(sorted_events))" with its break
RECURSIVE DetectInner(_, _, _, _)
DetectInner(sorted_events, i, j, acc) ==
    IF j > Len(sorted_events) THEN acc
    ELSE LET event_a == sorted_events[i]
             event_b == sorted_events[j]
         IN IF event_b.start_time >= event_a.end_time THEN acc
            ELSE DetectInner(sorted_events, i, j + 1,
                     IF /\ event_a.start_time < event_b.end_time
                        /\ event_b.start_time < event_a.end_time
                     THEN Append(acc, <<event_a.id, event_b.id>>)
                     ELSE acc)

RECURSIVE DetectOuter(_, _, _)
DetectOuter(sorted_events, i, acc) ==
    IF i > Len(sorted_events) THEN acc
    ELSE DetectOuter(sorted_events, i + 1,
                     DetectInner(sorted_events, i, i + 1, acc))

detect_conflicts(evs) == DetectOuter(SortByStart(evs), 1, <<>>)

---------------------------------------------------------------------------
(* SchedulingEngine.find_free_slots, with existing_events given *)

timedelta_minutes(m) == m * SecondsPerMinute

\* a gap must be longer than the minimum
GapFitsStrictly(gap_duration, duration_delta) == gap_duration > duration_delta

\* "if gap_duration >= duration_delta"
GapFits(gap_duration, duration_delta) == gap_duration >= duration_delta

\* a cursor that jumps to the end of every event
CursorToEventEnd(current_time, event) == event.end_time

\* "if event.end_time > current_time: current_time = event.end_time"
AdvanceCursor(current_time, event) ==
    IF event.end_time > current_time THEN event.end_time ELSE current_time

\* the loop "for event in existing_events"; st = [current_time, free_slots]
RECURSIVE FreeSlotWalk(_, _, _, _)
FreeSlotWalk(existing, i, duration_delta, st) ==
    IF i > Len(existing) THEN st
    ELSE LET event == existing[i]
             slots1 == IF /\ st.current_time < event.start_time
                          /\ GapFits(event.start_time - st.current_time,
                                     duration_delta)
                       THEN Append(st.free_slots,
                                   <<st.current_time, event.start_time>>)
                       ELSE st.free_slots
             cur1 == AdvanceCursor(st.current_time, event)
         IN FreeSlotWalk(existing, i + 1, duration_delta,
                         [current_time |-> cur1, free_slots |-> slots1])

find_free_slots(start_date, end_date, duration_minutes, existing_events) ==
    LET InRange(e) == e.start_time < end_date /\ e.end_time > start_date
        existing == SortByStart(SelectSeq(existing_events, InRange))
        duration_delta == timedelta_minutes(duration_minutes)
        st == FreeSlotWalk(existing, 1, duration_delta,
                           [current_time |-> start_date, free_slots |-> <<>>])
    IN IF /\ st.current_time < end_date
          /\ GapFits(end_date - st.current_time, duration_delta)
       THEN Append(st.free_slots, <<st.current_time, end_date>>)
       ELSE st.free_slots

---------------------------------------------------------------------------
(* SchedulingEngine.resolve_conflicts *)

\* int(x): truncation toward zero
IntTrunc(num, den) ==
    IF num >= 0 THEN num \div den ELSE -((-num) \div den)

\* duration_minutes = int(duration.total_seconds() / 60)
DurationMinutes(duration) == IntTrunc(duration, SecondsPerMinute)

HasConflict(event, finalized_events) ==
    \E k \in 1..Len(finalized_events) : events_overlap(event, finalized_events[k])

\* first loop: split the sorted list into finalized and to-reschedule
RECURSIVE FirstPass(_, _, _)
FirstPass(sorted_events, i, st) ==
    IF i > Len(sorted_events) THEN st
    ELSE LET event == sorted_events[i]
         IN FirstPass(sorted_events, i + 1,
                IF HasConflict(event, st.finalized_events)
                THEN [st EXCEPT !.events_to_reschedule = Append(@, event)]
                ELSE [st EXCEPT !.finalized_events = Append(@, event)])

\* new_end = new_start + duration
NewEndFromSlot(new_start, slot_end, duration) == slot_end

NewEnd(new_start, slot_end, duration) == new_start + duration

\* else branch: "No available slot found, keep original time"
DropUnplaced(finalized_events, event) == finalized_events

KeepUnplaced(finalized_events, event) == Append(finalized_events, event)

\* second loop: place each deferred event; no_slot records the ids that took
\* the else branch (kept at the original time)
RECURSIVE SecondPass(_, _, _)
SecondPass(to_reschedule, i, st) ==
    IF i > Len(to_reschedule) THEN st
    ELSE LET event == to_reschedule[i]
             duration == get_event_duration(event)
             duration_minutes == DurationMinutes(duration)
             search_start == event.start_time
             search_end == event.start_time + Horizon
             free_slots == find_free_slots(search_start, search_end,
                                           duration_minutes, st.finalized_events)
         IN SecondPass(to_reschedule, i + 1,
                IF free_slots # <<>>
                THEN LET new_start == free_slots[1][1]
                         slot_end == free_slots[1][2]
                         moved == [event EXCEPT
                                     !.start_time = new_start,
                                     !.end_time = NewEnd(new_start, slot_end, duration)]
                     IN [st EXCEPT !.finalized_events = Append(@, moved)]
                ELSE [st EXCEPT !.finalized_events = KeepUnplaced(@, event),
                                !.no_slot = @ \cup {event.id}])

\* "event.start_time = new_start; event.end_time = new_end" writes to the
\* objects of the caller's list: the list as the caller finds it after the call
AfterCall(evs, finalized_events) ==
    [i \in 1..Len(evs) |->
        IF \E k \in 1..Len(finalized_events) : finalized_events[k].id = evs[i].id
        THEN finalized_events[CHOOSE k \in 1..Len(finalized_events) :
                                 finalized_events[k].id = evs[i].id]
        ELSE evs[i]]

\* the whole call; besides the returned list the record keeps the ids that were
\* deferred and those for which no slot was found
ResolveRun(evs) ==
    IF evs = <<>>
    THEN [finalized_events |-> <<>>, deferred |-> {}, no_slot |-> {}]
    ELSE LET first == FirstPass(SortByPriority(evs), 1,
                          [finalized_events |-> <<>>, events_to_reschedule |-> <<>>])
             second == SecondPass(first.events_to_reschedule, 1,
                          [finalized_events |-> first.finalized_events,
                           no_slot |-> {}])
         IN [finalized_events |-> second.finalized_events,
             deferred |-> {e.id : e \in Range(first.events_to_reschedule)},
             no_slot |-> second.no_slot]

resolve_conflicts(evs) == ResolveRun(evs).finalized_events

---------------------------------------------------------------------------
(* Inputs of the pure functions *)

StartTimes == {k * Tick : k \in 0..MaxStart}

Durations == {k * Tick : k \in 1..MaxDur}

\* the (category, is_flexible) combinations of the explored events: a fixed
\* exam, a flexible study session, a fixed low-priority event
EventKinds ==
    {[category |-> "Exam", is_flexible |-> FALSE],
     [category |-> "Study", is_flexible |-> TRUE],
     [category |-> "Gaming", is_flexible |-> FALSE]}

MkEvent(i, cat, s, e, flex) ==
    [id |-> i, category |-> cat, start_time |-> s, end_time |-> e,
     is_flexible |-> flex]

\* what the caller may append as the i-th event: an ordinary event, or an exam
\* that occupies the whole search horizon
InputEvents(i) ==
    {MkEvent(i, k.category, s, s + d, k.is_flexible) :
        k \in EventKinds, s \in StartTimes, d \in Durations}
    \cup {MkEvent(i, "Exam", 0, Horizon, FALSE)}

NoResult ==
    [finalized_events |-> <<>>, deferred |-> {}, no_slot |-> {},
     events |-> <<>>]

NoSearch ==
    [start_date |-> 0, end_date |-> 0, duration_minutes |-> 0,
     free_slots |-> <<>>]

\* the windows and minimum durations find_free_slots is asked for: windows
\* that begin before and after the first explored instant and end inside and
\* after the explored events
SearchWindows ==
    {<<a, b>> : a \in {-2 * Tick, Tick}, b \in {2 * Tick, 6 * Tick}}

SearchMinutes == 0..2

InitEngine ==
    /\ events = <<>>
    /\ phase = "input"
    /\ conflicts = <<>>
    /\ resolved = NoResult
    /\ search = NoSearch

\* the caller appends one more event to the list it will hand over
AddEvent ==
    /\ phase = "input"
    /\ Len(events) < MaxEvents
    /\ \E e \in InputEvents(Len(events) + 1) : events' = Append(events, e)
    /\ UNCHANGED <<phase, conflicts, resolved, search>>
    /\ UNCHANGED storeVars
    /\ UNCHANGED parserVars

DetectConflicts ==
    /\ phase = "input"
    /\ conflicts' = detect_conflicts(events)
    /\ phase' = "detected"
    /\ UNCHANGED <<events, resolved, search>>
    /\ UNCHANGED storeVars
    /\ UNCHANGED parserVars

\* events stays the list as it was handed over; resolved.events is the same
\* list of objects after the call has written to them
ResolveConflicts ==
    /\ phase = "input"
    /\ \E run \in {ResolveRun(events)} :
          resolved' = [finalized_events |-> run.finalized_events,
                       deferred |-> run.deferred,
                       no_slot |-> run.no_slot,
                       events |-> AfterCall(events, run.finalized_events)]
    /\ phase' = "resolved"
    /\ UNCHANGED <<events, conflicts, search>>
    /\ UNCHANGED storeVars
    /\ UNCHANGED parserVars

FindFreeSlots ==
    /\ phase = "input"
    /\ \E w \in SearchWindows, m \in SearchMinutes :
          search' = [start_date |-> w[1], end_date |-> w[2],
                     duration_minutes |-> m,
                     free_slots |-> find_free_slots(w[1], w[2], m, events)]
    /\ phase' = "searched"
    /\ UNCHANGED <<events, conflicts, resolved>>
    /\ UNCHANGED storeVars
    /\ UNCHANGED parserVars

\* the caller appends a busy event of which only the times vary:
\* find_free_slots reads start_time and end_time alone
AddBusyEvent ==
    /\ phase = "input"
    /\ Len(events) < MaxEvents
    /\ \E e \in InputEvents(Len(events) + 1) :
          /\ e.category = "Exam"
          /\ events' = Append(events, e)
    /\ UNCHANGED <<phase, conflicts, resolved, search>>
    /\ UNCHANGED storeVars
    /\ UNCHANGED parserVars

\* resolve_conflicts on every explored list
NextResolve == AddEvent \/ ResolveConflicts

\* detect_conflicts on every explored list
NextDetect == AddEvent \/ DetectConflicts

\* find_free_slots on every explored list
NextSearch == AddEvent \/ FindFreeSlots

---------------------------------------------------------------------------
(* The store: Event, Category and SchedulingLog rows *)

EngineUser == "u1"      \* self.user of the engine
OtherUser == "u2"

NoId == 0               \* primary key of an object that was never saved

\* A title is a sequence of words; MkRow titles an event by its category.

MkRow(i, usr, cat, s, e, flex) ==
    [id |-> i, user |-> usr, category |-> cat, start_time |-> s,
     end_time |-> e, is_flexible |-> flex, google_calendar_id |-> NoId,
     title |-> <<cat>>]

MkLog(usr, action, event_id, ids) ==
    [user |-> usr, action |-> action, event |-> event_id, event_ids |-> ids]

MaxId(rows) ==
    IF DOMAIN rows = {} THEN 0
    ELSE CHOOSE m \in DOMAIN rows : \A x \in DOMAIN rows : x <= m

\* the rows of a table in primary-key order
RECURSIVE RowsUpTo(_, _)
RowsUpTo(rows, n) ==
    IF n = 0 THEN <<>>
    ELSE IF n \in DOMAIN rows THEN Append(RowsUpTo(rows, n - 1), rows[n])
    ELSE RowsUpTo(rows, n - 1)

AllRows(rows) == RowsUpTo(rows, MaxId(rows))

\* Event.objects.filter(user=.., start_time__lt=end_date, end_time__gt=start_date)
\* in the model's default ordering (start_time; equal starts by primary key)
EventsInRange(rows, usr, start_date, end_date) ==
    LET Hit(r) == /\ r.user = usr
                  /\ r.start_time < end_date
                  /\ r.end_time > start_date
    IN SortByStart(SelectSeq(AllRows(rows), Hit))

Put(rows, e) ==
    [x \in DOMAIN rows \cup {e.id} |-> IF x = e.id THEN e ELSE rows[x]]

Remove(rows, ids) == [x \in DOMAIN rows \ ids |-> rows[x]]

\* on_delete=SET_NULL of SchedulingLog.event
RECURSIVE NullEventRefs(_, _)
NullEventRefs(logs, ids) ==
    IF logs = <<>> THEN <<>>
    ELSE Append(NullEventRefs(Front(logs), ids),
                IF Last(logs).event \in ids
                THEN [Last(logs) EXCEPT !.event = NoId] ELSE Last(logs))

\* an Event.save without the call of clean()
CleanSkipped(e) == FALSE

\* Event.clean
CleanFails(e) == e.end_time <= e.start_time

(* An open transaction ("with transaction.atomic()") of one connection: the *)
(* rows it has written (puts) and deleted (gone), the audit records and the  *)
(* tokens it has written, and the number of primary keys it has taken. The   *)
(* other connections read none of it before the commit, and a write of a row *)
(* or of a user it has written waits for its end.                            *)

NoTx ==
    [puts |-> <<>>, gone |-> {}, logs |-> <<>>, tokens |-> {}, inserted |-> 0]

\* the rows of a table with the rows of puts written over them
Over(rows, puts) ==
    [x \in DOMAIN rows \cup DOMAIN puts |->
        IF x \in DOMAIN puts THEN puts[x] ELSE rows[x]]

\* the store as the connection that holds the transaction tx reads it
ViewOf(store, tx) ==
    [events |-> Over(Remove(store.events, tx.gone), tx.puts),
     logs |-> NullEventRefs(store.logs, tx.gone) \o tx.logs,
     next_id |-> store.next_id,
     tokens |-> store.tokens \cup tx.tokens]

\* the rows another connection cannot write before tx has ended
Locked(tx) == DOMAIN tx.puts \cup tx.gone

\* the transaction as it is left, with an exception or without
Closing(store, tx, failed) ==
    [events |-> ViewOf(store, tx).events, logs |-> ViewOf(store, tx).logs,
     next_id |-> store.next_id, tokens |-> ViewOf(store, tx).tokens,
     inserted |-> tx.inserted, failed |-> failed]

\* leaving "with transaction.atomic()": commit, or roll back on an exception;
\* the primary keys of rolled-back rows are given out again
NoRollback(store, tx) ==
    [events |-> tx.events, logs |-> tx.logs, next_id |-> tx.next_id,
     tokens |-> tx.tokens]

Atomic(store, tx) ==
    IF tx.failed THEN [store EXCEPT !.next_id = @ - tx.inserted]
    ELSE [events |-> tx.events, logs |-> tx.logs, next_id |-> tx.next_id,
          tokens |-> tx.tokens]

\* the transaction.atomic() block of each entry point
OptimizeAtomic(store, tx) == Atomic(store, tx)

ExamAtomic(store, tx) == Atomic(store, tx)

BulkUpdateAtomic(store, tx) == Atomic(store, tx)

BulkDeleteAtomic(store, tx) == Atomic(store, tx)

\* "except Exception as e: logger.error(...); raise"
Reraised(failed) == failed

MkRequest(method, event_id) == [method |-> method, event |-> event_id]

\* "user = event.user; if not user.google_calendar_token" of the receivers:
\* an object built with a user object carries it and its token (held is
\* "token" or "none"), an object that came from a query loads its user now
\* (held is "load")
HasToken(e, tokens, held) ==
    IF held = "load" THEN e.user \in tokens ELSE held = "token"

\* Event.save up to the token test of its post_save receiver: the INSERT of a
\* new object, or the UPDATE that becomes an INSERT when no row has the id.
\* sync is what the receiver has left to do: nothing without a token
SaveEvent(view, tx, e, held) ==
    LET row == IF e.id = NoId THEN [e EXCEPT !.id = view.next_id] ELSE e
    IN [tx |-> [tx EXCEPT !.puts = Put(@, row),
                          !.inserted = @ + (IF e.id = NoId THEN 1 ELSE 0)],
        row |-> row,
        sync |-> IF HasToken(row, view.tokens, held)
                 THEN <<[e |-> row, pc |-> "first",
                         created |-> e.id \notin DOMAIN view.events]>>
                 ELSE <<>>]

\* get_calendar_service: a token that is past its expiry is refreshed and
\* stored with user.save(update_fields=['google_calendar_token']). The model
\* keeps no clock, so every use of a token may find it expired; written is
\* the set the token is stored in, and seen the tokens the connection reads.
\* A token stored over itself is not recorded
Refreshed(written, usr, expired, seen) ==
    IF expired /\ usr \notin seen THEN written \cup {usr} ELSE written

\* the receivers from the token test on, one request to the remote calendar
\* at a time. After a save: sync_event_to_google inserts the remote event,
\* or updates it when the object has a google_calendar_id ("first"); when
\* sync_event_create ran or the remote id is new, the row is saved with
\* update_fields=['google_calendar_id'] and the post_save of that save sends
\* an update ("second"). After a delete: delete_event_from_google ("delete")
PostSave(tx, sync, expired, seen) ==
    LET e == sync.e
        refreshed == [tx EXCEPT
                        !.tokens = Refreshed(@, e.user, expired, seen)]
    IN IF sync.pc = "first"
       THEN [tx |-> refreshed,
             sent |-> <<MkRequest(IF e.google_calendar_id # NoId
                                  THEN "update" ELSE "insert", e.id)>>,
             sync |-> IF sync.created \/ e.google_calendar_id = NoId
                      THEN <<[sync EXCEPT !.pc = "second",
                                          !.e.google_calendar_id = e.id]>>
                      ELSE <<>>]
       ELSE IF sync.pc = "second"
       THEN [tx |-> [refreshed EXCEPT !.puts = Put(@, e)],
             sent |-> <<MkRequest("update", e.id)>>,
             sync |-> <<>>]
       ELSE [tx |-> refreshed,
             sent |-> <<MkRequest("delete", e.id)>>,
             sync |-> <<>>]

\* the post_delete receiver delete_event_from_google_calendar up to its
\* request: nothing is left to do without a token or a google_calendar_id
PostDelete(e, tokens, held) ==
    IF HasToken(e, tokens, held) /\ e.google_calendar_id # NoId
    THEN <<[e |-> e, pc |-> "delete", created |-> FALSE]>>
    ELSE <<>>

\* the call that has raised out of its block
Failed(c) ==
    [c EXCEPT !.pc = "done", !.failed = TRUE, !.writes = @ + 1,
              !.raised = Reraised(TRUE), !.result = <<>>,
              !.todo = <<>>, !.sync = <<>>, !.tx = NoTx]

\* what a step leaves: the call, the requests sent, the next primary key,
\* whether the block is still open, and the transaction as it is left
StepOf(c, sent, nid, end, tx) ==
    [call |-> c, sent |-> sent, next_id |-> nid, end |-> end, tx |-> tx]

\* one step of "for event in ...: event.save()" followed by
\* SchedulingLog.objects.create under transaction.atomic(): the request the
\* receiver of the last save has left, else the save of the next object of
\* c.todo, else the audit record rec and the commit. returned says that the
\* saved objects are the ones the call returns
BlockStep(c, store, rec, held, returned, fault, expired) ==
    IF c.sync # <<>>
    THEN LET r == PostSave(c.tx, c.sync[1], expired, ViewOf(store, c.tx).tokens)
         IN StepOf([c EXCEPT
                      !.tx = r.tx, !.sync = r.sync, !.sent = @ \o r.sent,
                      !.result = IF returned /\ r.sync # <<>>
                                 THEN [@ EXCEPT ![Len(@)] = r.sync[1].e]
                                 ELSE @],
                   r.sent, store.next_id, "open", r.tx)
    ELSE IF c.todo # <<>>
    THEN IF CleanFails(Head(c.todo)) \/ fault
         THEN StepOf(Failed(c), <<>>, store.next_id, "rollback", c.tx)
         ELSE LET s == SaveEvent(ViewOf(store, c.tx), c.tx, Head(c.todo), held)
              IN StepOf([c EXCEPT
                           !.tx = s.tx, !.sync = s.sync, !.todo = Tail(@),
                           !.writes = @ + 1,
                           !.result = IF returned THEN Append(@, s.row)
                                      ELSE @],
                        <<>>,
                        store.next_id + (s.tx.inserted - c.tx.inserted),
                        "open", s.tx)
    ELSE IF fault
    THEN StepOf(Failed(c), <<>>, store.next_id, "rollback", c.tx)
    ELSE StepOf([c EXCEPT !.pc = "done", !.writes = @ + 1, !.tx = NoTx],
                <<>>, store.next_id, "commit",
                [c.tx EXCEPT !.logs = Append(@, rec)])

\* the writes that may fail in the database, and the uses of a token that
\* may find it expired: a step writes or it sends a request
Faults(c) == IF c.sync = <<>> THEN BOOLEAN ELSE {FALSE}

Expiries(c) == IF c.sync # <<>> THEN BOOLEAN ELSE {FALSE}

\* the step of c does not wait for the transaction other: the row it writes
\* and the user whose token it stores are not written there
NotWaiting(c, other, expired) ==
    /\ c.sync = <<>> /\ c.todo # <<>> => Head(c.todo).id \notin Locked(other)
    /\ expired => c.sync[1].e.user \notin other.tokens

---------------------------------------------------------------------------
(* The objects the entry points save *)

OptimizeLog(optimized_events) ==
    MkLog(EngineUser, "OPTIMIZE", NoId,
          [k \in 1..Len(optimized_events) |-> optimized_events[k].id])

\* the day of an instant, and study_start.replace(hour=14, minute=0, ...)
DayOf(t) == t \div SecondsPerDay

\* a study_start left at the exam's time of day
KeepTimeOfDay(t) == t

AtStudyHour(t) == DayOf(t) * SecondsPerDay + StudyHour * SecondsPerHour

\* create_exam_study_sessions: the unsaved sessions, earliest first
StudySessions(exam_event, num_sessions) ==
    [i \in 1..num_sessions |->
        LET days_before == num_sessions - (i - 1)
            study_start ==
                AtStudyHour(exam_event.start_time - days_before * SecondsPerDay)
        IN [MkRow(NoId, EngineUser, "Study", study_start,
                  study_start + timedelta_minutes(SessionMinutes), TRUE)
               EXCEPT !.title = <<"Study", "for">> \o exam_event.title]]

SeqMin(vals) == CHOOSE m \in vals : \A v \in vals : m <= v
SeqMax(vals) == CHOOSE m \in vals : \A v \in vals : v <= m

\* create_exam_study_sessions: all_events of the block, re-resolved
Reresolved(rows, study_sessions) ==
    resolve_conflicts(
        EventsInRange(rows, EngineUser,
            SeqMin({study_sessions[i].start_time : i \in DOMAIN study_sessions}),
            SeqMax({study_sessions[i].end_time : i \in DOMAIN study_sessions})))

\* the audit record of create_exam_study_sessions
ExamLog(exam_event, study_sessions) ==
    MkLog(EngineUser, "CREATE", exam_event.id,
          [i \in DOMAIN study_sessions |-> study_sessions[i].id])

\* json.dumps of the details of a SchedulingLog by JSONField(): the rows of
\* .values('id', 'title', 'start_time', 'end_time') hold datetime objects,
\* which the default encoder refuses with a TypeError
NotSerializable(deleted_events) == deleted_events # <<>>

\* Event.objects.filter(user=.., id__in=event_ids).delete(): the collector
\* sorts the rows by primary key and reverses them before it deletes, so the
\* post_delete signals come highest primary key first
Collected(rows, usr, event_ids) ==
    LET found == SelectSeq(AllRows(rows),
                     LAMBDA r : r.user = usr /\ r.id \in event_ids)
    IN [k \in 1..Len(found) |-> found[Len(found) + 1 - k]]

---------------------------------------------------------------------------
(* State of the store, of the engine call and of the request of the API *)

Store ==
    [events |-> db_events, logs |-> db_logs, next_id |-> next_id,
     tokens |-> db_tokens]

\* what is persisted, as compared before and after a call
Persisted ==
    [events |-> db_events, logs |-> db_logs, categories |-> db_categories]

\* made: the Category rows the call has created by get_or_create; todo, sync
\* and tx: the objects the block has still to save or delete, what the
\* receiver of the last one has left to do, and the open transaction;
\* delete_pc: where the one explored delete request of the chat stands
NoCall ==
    [op |-> "none", pc |-> "idle", window |-> <<0, 0>>, arg |-> <<>>,
     work |-> <<>>, failed |-> FALSE, writes |-> 0, raised |-> FALSE,
     sent |-> <<>>, result |-> <<>>, made |-> {}, user_token |-> FALSE,
     delete_pc |-> "idle",
     before |-> [events |-> <<>>, logs |-> <<>>, categories |-> {}],
     between |-> <<>>,
     todo |-> <<>>, sync |-> <<>>, tx |-> NoTx, stage |-> 0]

\* the record of the API after a response: delete_pc stays
Served(c) == [NoCall EXCEPT !.delete_pc = c.delete_pc]

InitStore ==
    /\ db_events = <<>>
    /\ db_logs = <<>>
    /\ db_categories = {"Exam", "Gaming"}
    /\ next_id = 1
    /\ call = NoCall
    /\ request = NoCall
    /\ db_tokens = {}
    /\ remote = <<>>

\* the effects of a step on the tables and on the remote calendar
Effects(after, sent) ==
    /\ db_events' = after.events
    /\ db_logs' = after.logs
    /\ next_id' = after.next_id
    /\ db_tokens' = after.tokens
    /\ remote' = remote \o sent

\* the store after a step that leaves its block open
Open(nid) == [Store EXCEPT !.next_id = nid]

\* instants of the explored rows: around 14:00 of day 2, and an exam on day 3
StoreT0 == 2 * SecondsPerDay + StudyHour * SecondsPerHour

StoreStarts == {StoreT0 + k * Tick : k \in 0..MaxStart}

ExamAt == 3 * SecondsPerDay + 9 * SecondsPerHour

\* exams at 09:00 and at 00:00 of day 3
ExamStarts == {ExamAt, 3 * SecondsPerDay}

\* what a user may create: the engine's user ordinary events and an exam,
\* the other user one event
NewEvents(usr) ==
    IF usr = EngineUser
    THEN {MkRow(NoId, usr, c, s, s + d, TRUE) :
             c \in {"Study", "Gaming"}, s \in StoreStarts, d \in Durations}
         \cup {MkRow(NoId, usr, "Exam", s, s + 3 * SecondsPerHour, FALSE) :
                  s \in ExamStarts}
    ELSE {MkRow(NoId, usr, "Gaming", StoreT0, StoreT0 + Tick, TRUE)}

\* manage.py populate_categories: default_categories in the order of the loop
DefaultCategories == <<"Exam", "Study", "Gym", "Social", "Gaming">>

\* the first get_or_create of the loop that finds no row: the ones before it
\* have found theirs, since no request deletes a category
FirstMissing(categories) ==
    CHOOSE i \in DOMAIN DefaultCategories :
        /\ DefaultCategories[i] \notin categories
        /\ \A j \in 1..(i - 1) : DefaultCategories[j] \in categories

\* manage.py populate_categories, one get_or_create that creates its row: the
\* command opens no transaction, so every row is committed on its own and
\* the requests of the users are served between two of them
PopulateCategories ==
    /\ call.pc # "done"
    /\ ~(CategoryNames \subseteq db_categories)
    /\ db_categories' =
          db_categories \cup {DefaultCategories[FirstMissing(db_categories)]}
    /\ UNCHANGED <<db_events, db_logs, next_id, call, request, db_tokens, remote>>
    /\ UNCHANGED engineVars
    /\ UNCHANGED parserVars

\* names posted to CategoryViewSet, each with the priority_level it has in
\* the default table
PostedCategories == {"Gym", "Social"}

\* CategoryViewSet.create: a POST of a category; a name that exists is
\* refused by the unique constraint of Category.name
CreateCategory ==
    /\ call.pc # "done"
    /\ \E name \in PostedCategories :
          /\ name \notin db_categories
          /\ db_categories' = db_categories \cup {name}
    /\ UNCHANGED <<db_events, db_logs, next_id, call, request, db_tokens, remote>>
    /\ UNCHANGED engineVars
    /\ UNCHANGED parserVars

\* the users whose row an open transaction has written
UsersLocked == call.tx.tokens \cup request.tx.tokens

\* google_calendar_callback: the token is stored for the user named by the
\* state parameter of the request
GoogleCalendarCallback ==
    /\ call.pc # "done"
    /\ \E usr \in {EngineUser, OtherUser} \ UsersLocked :
          /\ usr \notin db_tokens
          /\ db_tokens' = db_tokens \cup {usr}
    /\ UNCHANGED <<db_events, db_logs, db_categories, next_id, call, request, remote>>
    /\ UNCHANGED engineVars
    /\ UNCHANGED parserVars

\* google_calendar_disconnect: user.google_calendar_token = None
GoogleCalendarDisconnect ==
    /\ call.pc # "done"
    /\ \E usr \in db_tokens \ UsersLocked : db_tokens' = db_tokens \ {usr}
    /\ UNCHANGED <<db_events, db_logs, db_categories, next_id, call, request, remote>>
    /\ UNCHANGED engineVars
    /\ UNCHANGED parserVars

\* the token of request.user of a view, loaded when the request is
\* authenticated
HeldToken(c) == IF c.user_token THEN "token" ELSE "none"

\* the audit record of EventViewSet.create
CreateLog(c) ==
    IF c.result = <<>> THEN MkLog(c.work[1].user, "CREATE", NoId, <<>>)
    ELSE MkLog(c.work[1].user, "CREATE", c.result[1].id, <<>>)

\* EventViewSet.create, for a request that is answered with 201. The request
\* is authenticated and its body read; then, under transaction.atomic(),
\* perform_create saves the event with user=self.request.user, the post_save
\* receiver sends its requests one after the other, and the audit record is
\* written and the block committed
CreateEvent ==
    IF request.pc = "idle"
    THEN /\ call.pc \in {"idle", "chat", "sync", "save", "update"}
         /\ next_id <= MaxDbEvents
         /\ \E usr \in {EngineUser, OtherUser} : \E e \in NewEvents(usr) :
               /\ e.category \in db_categories
               /\ request' = [Served(request) EXCEPT
                                !.op = "create", !.pc = "block",
                                !.work = <<e>>, !.todo = <<e>>,
                                !.user_token = usr \in db_tokens]
         /\ UNCHANGED <<db_events, db_logs, db_categories, next_id, call,
                        db_tokens, remote>>
         /\ UNCHANGED engineVars
         /\ UNCHANGED parserVars
    ELSE /\ request.op = "create"
         /\ \E expired \in Expiries(request) :
               /\ NotWaiting(request, call.tx, expired)
               /\ \E r \in {BlockStep(request, Store, CreateLog(request),
                                      HeldToken(request), TRUE, FALSE,
                                      expired)} :
                  \E after \in {IF r.end = "open" THEN Open(r.next_id)
                                ELSE Atomic(Store,
                                            Closing(Store, r.tx, FALSE))} :
                     /\ Effects(after, r.sent)
                     /\ request' = IF r.end = "open" THEN r.call
                                   ELSE Served(request)
         /\ UNCHANGED <<db_categories, call>>
         /\ UNCHANGED engineVars
         /\ UNCHANGED parserVars

Windows ==
    {<<StoreT0 - SecondsPerHour, StoreT0 + SecondsPerHour>>,
     <<StoreT0 + Tick, StoreT0 + 2 * Tick>>,
     <<0, SecondsPerDay>>}

\* optimize_schedule up to "optimized_events = self.resolve_conflicts(events)";
\* the explored calls are made while no request of the API is being served
OptimizeRead ==
    /\ call.pc = "idle"
    /\ request.pc = "idle"
    /\ \E w \in Windows :
          \E evs \in {EventsInRange(db_events, EngineUser, w[1], w[2])} :
          \E work \in {IF evs = <<>> THEN <<>> ELSE resolve_conflicts(evs)} :
             call' = IF evs = <<>>
                     THEN [NoCall EXCEPT !.op = "optimize", !.pc = "done",
                                         !.window = w, !.before = Persisted]
                     ELSE [NoCall EXCEPT !.op = "optimize", !.pc = "read",
                                         !.window = w, !.before = Persisted,
                                         !.work = work, !.todo = work]
    /\ UNCHANGED <<db_events, db_logs, db_categories, next_id, request,
                   db_tokens, remote>>
    /\ UNCHANGED engineVars
    /\ UNCHANGED parserVars

\* optimize_schedule from "if save_to_db:" on, save_to_db = True, one step
\* of its block at a time: the events came from the query and load their
\* user in the receiver
OptimizeSave ==
    /\ call.pc = "read" /\ call.op = "optimize"
    /\ \E fault \in Faults(call), expired \in Expiries(call) :
          /\ NotWaiting(call, request.tx, expired)
          /\ \E r \in {BlockStep(call, Store, OptimizeLog(call.work), "load",
                                 TRUE, fault, expired)} :
             \E after \in {IF r.end = "open" THEN Open(r.next_id)
                           ELSE OptimizeAtomic(Store,
                                   Closing(Store, r.tx, r.end = "rollback"))} :
                /\ Effects(after, r.sent)
                /\ call' = r.call
    /\ UNCHANGED <<db_categories, request>>
    /\ UNCHANGED engineVars
    /\ UNCHANGED parserVars

\* create_exam_study_sessions up to "if save_to_db:", for an exam of the user
\* and num_sessions of 2 or 3; get_or_create commits the Study category on its
\* own, before the atomic block is entered. user_token is the token of the
\* user object the engine was built with
ExamPrepare ==
    /\ call.pc = "idle"
    /\ request.pc = "idle"
    /\ \E i \in DOMAIN db_events, n \in 2..3 :
          /\ db_events[i].user = EngineUser
          /\ db_events[i].category = "Exam"
          /\ \E work \in {StudySessions(db_events[i], n)} :
             call' = [NoCall EXCEPT !.op = "exam", !.pc = "read",
                                    !.arg = <<db_events[i], n>>,
                                    !.before = Persisted,
                                    !.made = {"Study"} \ db_categories,
                                    !.user_token = EngineUser \in db_tokens,
                                    !.work = work, !.todo = work,
                                    !.stage = 1]
    /\ db_categories' = db_categories \cup {"Study"}
    /\ UNCHANGED <<db_events, db_logs, next_id, request, db_tokens, remote>>
    /\ UNCHANGED engineVars
    /\ UNCHANGED parserVars

\* create_exam_study_sessions from "if save_to_db:" on, save_to_db = True, one
\* step of its block at a time. The sessions were built with user=self.user,
\* so their receivers read the token of the user object the engine holds;
\* the events of all_events come from the query of the block and load their
\* user in the receiver. The call returns the session objects
ExamSave ==
    /\ call.pc = "read" /\ call.op = "exam"
    /\ IF call.stage = 1 /\ call.todo = <<>> /\ call.sync = <<>>
       THEN /\ \E optimized_events \in
                    {Reresolved(ViewOf(Store, call.tx).events, call.result)} :
                  call' = [call EXCEPT !.stage = 2, !.todo = optimized_events]
            /\ UNCHANGED <<db_events, db_logs, next_id, db_tokens, remote>>
       ELSE \E fault \in Faults(call), expired \in Expiries(call) :
               /\ NotWaiting(call, request.tx, expired)
               /\ \E r \in {BlockStep(call, Store,
                                      ExamLog(call.arg[1], call.result),
                                      IF call.stage = 1 THEN HeldToken(call)
                                      ELSE "load",
                                      call.stage = 1, fault, expired)} :
                  \E after \in {IF r.end = "open" THEN Open(r.next_id)
                                ELSE ExamAtomic(Store,
                                        Closing(Store, r.tx,
                                                r.end = "rollback"))} :
                     /\ Effects(after, r.sent)
                     /\ call' = r.call
    /\ UNCHANGED <<db_categories, request>>
    /\ UNCHANGED engineVars
    /\ UNCHANGED parserVars

\* the caller's modified objects: each of the user's events one tick later
ShiftLater(e) ==
    [e EXCEPT !.start_time = @ + Tick, !.end_time = @ + Tick]

EventsOf(rows, usr) == SelectSeq(AllRows(rows), LAMBDA r : r.user = usr)

\* lists handed to bulk_update_events: the user's events shifted, at most one
\* of them with end_time = start_time, or every persisted event shifted
UpdateLists ==
    LET mine == EventsOf(db_events, EngineUser)
        all == AllRows(db_events)
    IN {[k \in 1..Len(mine) |->
            IF k = bad THEN [mine[k] EXCEPT !.end_time = mine[k].start_time]
            ELSE ShiftLater(mine[k])] : bad \in 0..Len(mine)}
       \cup {[k \in 1..Len(all) |-> ShiftLater(all[k])]}

BulkUpdateLog(list) ==
    MkLog(EngineUser, "BULK_UPDATE", NoId, [k \in 1..Len(list) |-> list[k].id])

\* bulk_update_events: the call with its list, then one step of the block at
\* a time; the objects of the list came from a query of the caller
BulkUpdate ==
    IF call.pc = "idle"
    THEN /\ request.pc = "idle"
         /\ \E list \in UpdateLists :
               call' = IF list = <<>>
                       THEN [NoCall EXCEPT !.op = "bulk_update", !.pc = "done",
                                           !.before = Persisted]
                       ELSE [NoCall EXCEPT !.op = "bulk_update", !.pc = "block",
                                           !.arg = list, !.todo = list,
                                           !.before = Persisted]
         /\ UNCHANGED <<db_events, db_logs, db_categories, next_id, request,
                        db_tokens, remote>>
         /\ UNCHANGED engineVars
         /\ UNCHANGED parserVars
    ELSE /\ call.pc = "block" /\ call.op = "bulk_update"
         /\ \E fault \in Faults(call), expired \in Expiries(call) :
               /\ NotWaiting(call, request.tx, expired)
               /\ \E r \in {BlockStep(call, Store, BulkUpdateLog(call.arg),
                                      "load", TRUE, fault, expired)} :
                  \E after \in {IF r.end = "open" THEN Open(r.next_id)
                                ELSE BulkUpdateAtomic(Store,
                                        Closing(Store, r.tx,
                                                r.end = "rollback"))} :
                     /\ Effects(after, r.sent)
                     /\ call' = r.call
         /\ UNCHANGED <<db_categories, request>>
         /\ UNCHANGED engineVars
         /\ UNCHANGED parserVars

\* one step of the block of bulk_delete_events: the rows are read and
\* deleted by one statement (stage 1); the post_delete receivers follow one
\* after the other, each loading the user of its row and then sending its
\* request (stage 2); the audit record is written and the block committed.
\* c.work holds events_to_delete
BulkDeleteStep(c, store, fault, expired) ==
    IF c.stage = 1
    THEN IF fault
         THEN StepOf(Failed(c), <<>>, store.next_id, "rollback", c.tx)
         ELSE \* c.arg[1]: event_ids
              LET gone == Collected(ViewOf(store, c.tx).events, EngineUser,
                                    c.arg[1])
                  tx == [c.tx EXCEPT
                           !.gone = @ \cup {gone[k].id : k \in DOMAIN gone}]
              IN StepOf([c EXCEPT !.stage = 2, !.tx = tx, !.todo = gone,
                                  !.work = gone, !.writes = @ + 1],
                        <<>>, store.next_id, "open", tx)
    ELSE IF c.sync # <<>>
    THEN LET r == PostSave(c.tx, c.sync[1], expired, ViewOf(store, c.tx).tokens)
         IN StepOf([c EXCEPT !.tx = r.tx, !.sync = r.sync,
                             !.sent = @ \o r.sent],
                   r.sent, store.next_id, "open", r.tx)
    ELSE IF c.todo # <<>>
    THEN StepOf([c EXCEPT
                   !.sync = PostDelete(Head(c.todo),
                                       ViewOf(store, c.tx).tokens, "load"),
                   !.todo = Tail(@)],
                <<>>, store.next_id, "open", c.tx)
    ELSE IF NotSerializable(c.work) \/ fault
    THEN StepOf(Failed(c), <<>>, store.next_id, "rollback", c.tx)
    ELSE StepOf([c EXCEPT !.pc = "done", !.writes = @ + 1, !.tx = NoTx,
                          !.result = <<Len(c.work)>>],
                <<>>, store.next_id, "commit",
                [c.tx EXCEPT !.logs = Append(@,
                     MkLog(EngineUser, "BULK_DELETE", NoId,
                           [k \in 1..Len(c.work) |-> c.work[k].id]))])

\* the steps of bulk_delete_events that write: the delete and the audit record
DeleteFaults(c) ==
    IF c.stage = 1 \/ (c.sync = <<>> /\ c.todo = <<>>) THEN BOOLEAN
    ELSE {FALSE}

\* bulk_delete_events: the call with its ids, then one step of the block at a
\* time; the result is deleted_count
BulkDelete ==
    IF call.pc = "idle"
    THEN /\ request.pc = "idle"
         /\ \E event_ids \in SUBSET (1..next_id) :
               call' = IF event_ids = {}
                       THEN [NoCall EXCEPT !.op = "bulk_delete", !.pc = "done",
                                           !.before = Persisted,
                                           !.result = <<0>>]
                       ELSE [NoCall EXCEPT !.op = "bulk_delete", !.pc = "block",
                                           !.arg = <<event_ids>>,
                                           !.before = Persisted, !.stage = 1]
         /\ UNCHANGED <<db_events, db_logs, db_categories, next_id, request,
                        db_tokens, remote>>
         /\ UNCHANGED engineVars
         /\ UNCHANGED parserVars
    ELSE /\ call.pc = "block" /\ call.op = "bulk_delete"
         /\ \E fault \in DeleteFaults(call), expired \in Expiries(call) :
               /\ expired => EngineUser \notin request.tx.tokens
               /\ \E r \in {BulkDeleteStep(call, Store, fault, expired)} :
                  \E after \in {IF r.end = "open" THEN Open(r.next_id)
                                ELSE BulkDeleteAtomic(Store,
                                        Closing(Store, r.tx,
                                                r.end = "rollback"))} :
                     /\ Effects(after, r.sent)
                     /\ call' = r.call
         /\ UNCHANGED <<db_categories, request>>
         /\ UNCHANGED engineVars
         /\ UNCHANGED parserVars

\* EventViewSet.update by the engine's user while optimize_schedule is past
\* its query: get_object reads the row, and then, one step at a time,
\* perform_update saves it one tick later, the post_save receiver loads the
\* user and sends its requests, and the audit record is written and the
\* block committed. call.between names the request
UpdateEvent ==
    IF request.pc = "idle"
    THEN /\ call.pc = "read" /\ call.op = "optimize" /\ call.between = <<>>
         /\ \E i \in DOMAIN db_events :
               /\ db_events[i].user = EngineUser
               /\ request' = [Served(request) EXCEPT
                                !.op = "update", !.pc = "block",
                                !.work = <<ShiftLater(db_events[i])>>,
                                !.todo = <<ShiftLater(db_events[i])>>]
               /\ call' = [call EXCEPT !.between = <<"update", i>>]
         /\ UNCHANGED <<db_events, db_logs, db_categories, next_id,
                        db_tokens, remote>>
         /\ UNCHANGED engineVars
         /\ UNCHANGED parserVars
    ELSE /\ request.op = "update"
         /\ \E expired \in Expiries(request) :
               /\ NotWaiting(request, call.tx, expired)
               /\ \E r \in {BlockStep(request, Store,
                                      MkLog(EngineUser, "UPDATE",
                                            request.work[1].id, <<>>),
                                      "load", TRUE, FALSE, expired)} :
                  \E after \in {IF r.end = "open" THEN Open(r.next_id)
                                ELSE Atomic(Store,
                                            Closing(Store, r.tx, FALSE))} :
                     /\ Effects(after, r.sent)
                     /\ request' = IF r.end = "open" THEN r.call
                                   ELSE Served(request)
         /\ UNCHANGED <<db_categories, call>>
         /\ UNCHANGED engineVars
         /\ UNCHANGED parserVars

\* one step of the block of EventViewSet.destroy after get_object: the audit
\* record is written and the row deleted, and the post_delete receiver loads
\* the user; its request is sent; the block is committed
DestroyStep(c, store, expired) ==
    IF c.sync # <<>>
    THEN LET r == PostSave(c.tx, c.sync[1], expired, ViewOf(store, c.tx).tokens)
         IN StepOf([c EXCEPT !.tx = r.tx, !.sync = r.sync,
                             !.sent = @ \o r.sent],
                   r.sent, store.next_id, "open", r.tx)
    ELSE IF c.todo # <<>>
    THEN LET tx == [c.tx EXCEPT
                      !.logs = Append(@, MkLog(EngineUser, "DELETE", NoId,
                                               <<Head(c.todo).id>>)),
                      !.gone = @ \cup {Head(c.todo).id}]
         IN StepOf([c EXCEPT
                      !.tx = tx, !.todo = Tail(@),
                      !.sync = PostDelete(Head(c.todo),
                                          ViewOf(store, tx).tokens, "load")],
                   <<>>, store.next_id, "open", tx)
    ELSE StepOf([c EXCEPT !.pc = "done"], <<>>, store.next_id, "commit", c.tx)

\* EventViewSet.destroy by the engine's user at the same point
DestroyEvent ==
    IF request.pc = "idle"
    THEN /\ call.pc = "read" /\ call.op = "optimize" /\ call.between = <<>>
         /\ \E i \in DOMAIN db_events :
               /\ db_events[i].user = EngineUser
               /\ request' = [Served(request) EXCEPT
                                !.op = "destroy", !.pc = "block",
                                !.work = <<db_events[i]>>,
                                !.todo = <<db_events[i]>>]
               /\ call' = [call EXCEPT !.between = <<"destroy", i>>]
         /\ UNCHANGED <<db_events, db_logs, db_categories, next_id,
                        db_tokens, remote>>
         /\ UNCHANGED engineVars
         /\ UNCHANGED parserVars
    ELSE /\ request.op = "destroy"
         /\ \E expired \in Expiries(request) :
               /\ NotWaiting(request, call.tx, expired)
               /\ \E r \in {DestroyStep(request, Store, expired)} :
                  \E after \in {IF r.end = "open" THEN Open(r.next_id)
                                ELSE Atomic(Store,
                                            Closing(Store, r.tx, FALSE))} :
                     /\ Effects(after, r.sent)
                     /\ request' = IF r.end = "open" THEN r.call
                                   ELSE Served(request)
         /\ UNCHANGED <<db_categories, call>>
         /\ UNCHANGED engineVars
         /\ UNCHANGED parserVars

---------------------------------------------------------------------------
(* ai_agent/parsers.py: TemporalExpressionParser                            *)
(*                                                                         *)
(* A text is a sequence of words separated by blanks; some words of the    *)
(* explored vocabulary stand for a fixed run of words ("at 5pm").          *)
(* A naive datetime is a number of seconds since 00:00 of day 0, Monday     *)
(* 2026-10-26, on the wall clock; an aware datetime is a naive one with    *)
(* the utcoffset of its tzinfo, which pytz fixes when it localizes and     *)
(* arithmetic on the datetime leaves as it is.                             *)

DaysPerWeek == 7
DefaultHour == 14           \* return (14, 0)  # Default to 2 PM
TonightHour == 20           \* start.replace(hour=20, ...)
EveningStartsAt == 18       \* if start.hour < 18
HoursPerDay == 24
MinutesPerHour == 60
MaxOrdinal == 3652059       \* date.max.toordinal(): 9999-12-31
RefOrdinal == 739915        \* ordinal of day 0, Monday 2026-10-26

\* pytz.timezone(user_timezone): the explored zones
Zones == {"UTC", "America/New_York"}

\* New York leaves daylight saving time on Sunday 2026-11-01: the wall clock
\* goes from 02:00 EDT back to 01:00 EST
DstEndsAt == 6 * SecondsPerDay + 1 * SecondsPerHour

\* user_timezone.localize(naive), is_dst=False: the offset of the wall-clock
\* time, the standard one for the hour that comes twice
Localize(tz, naive) ==
    [naive |-> naive,
     utcoffset |-> IF tz = "UTC" THEN 0
                   ELSE IF naive < DstEndsAt THEN -4 * SecondsPerHour
                   ELSE -5 * SecondsPerHour]

\* the instant of an aware datetime, which comparisons go by
Instant(date) == date.naive - date.utcoffset

\* aware datetime + timedelta: the wall clock moves, the tzinfo stays
Plus(date, delta) == [date EXCEPT !.naive = @ + delta]

\* TemporalExpressionParser.WEEKDAYS
WeekdayNames ==
    {"monday", "mon", "tuesday", "tue", "tues", "wednesday", "wed",
     "thursday", "thu", "thur", "thurs", "friday", "fri", "saturday", "sat",
     "sunday", "sun"}

WEEKDAYS(name) ==
    CASE name \in {"monday", "mon"} -> 0
      [] name \in {"tuesday", "tue", "tues"} -> 1
      [] name \in {"wednesday", "wed"} -> 2
      [] name \in {"thursday", "thu", "thur", "thurs"} -> 3
      [] name \in {"friday", "fri"} -> 4
      [] name \in {"saturday", "sat"} -> 5
      [] name \in {"sunday", "sun"} -> 6

\* the words "<digits> days", "<digits> weeks": the number in them
NumberOf(word) ==
    CASE word \in {"2 days", "2 weeks"} -> 2
      [] word = "4000000 days" -> 4000000
      [] OTHER -> 0

DayCounts == {"2 days", "4000000 days"}
WeekCounts == {"2 weeks"}

\* the words "at <h>am|pm": the hour and meridiem in them
ClockWords == {"at 5pm", "at 13pm", "at 12am"}

ClockHour(word) ==
    CASE word = "at 5pm" -> 5
      [] word = "at 13pm" -> 13
      [] word = "at 12am" -> 12

ClockMeridiem(word) == IF word = "at 12am" THEN "am" ELSE "pm"

\* TemporalExpressionParser.TIME_OF_DAY, in the order of the dictionary; a
\* word counts when it occurs anywhere in the text, inside another word too
TimeWords == <<"morning", "afternoon", "evening", "night">>

TIME_OF_DAY(time_word) ==
    CASE time_word = "morning" -> 9
      [] time_word = "afternoon" -> 14
      [] time_word = "evening" -> 18
      [] time_word = "night" -> 20

HasTimeWord(word, time_word) ==
    \/ word = time_word
    \/ word = "tonight" /\ time_word = "night"

\* the leftmost place where the words of a pattern stand side by side; 0 when
\* there is none
FirstAt(txt, Hit(_)) ==
    LET at == {k \in 1..Len(txt) : Hit(k)}
    IN IF at = {} THEN 0 ELSE CHOOSE k \in at : \A l \in at : k <= l

\* the words "for <digits> hours" and "for <digits> minutes": the figure in
\* them
HoursWords == {"for 2 hours", "for 0 hours"}

MinutesWords == {"for 30 minutes", "for 0 minutes"}

FigureOf(word) ==
    CASE word = "for 2 hours" -> 2
      [] word = "for 30 minutes" -> 30
      [] OTHER -> 0

\* _extract_duration: the leftmost hours figure, else the leftmost minutes
\* figure, else one hour
extract_duration(txt) ==
    LET hours_match == FirstAt(txt, LAMBDA k : txt[k] \in HoursWords)
        minutes_match == FirstAt(txt, LAMBDA k : txt[k] \in MinutesWords)
    IN IF hours_match > 0
       THEN FigureOf(txt[hours_match]) * SecondsPerHour
       ELSE IF minutes_match > 0
       THEN FigureOf(txt[minutes_match]) * SecondsPerMinute
       ELSE SecondsPerHour

\* _get_time_of_day: <<hour, minute>> of the leftmost clock time, else of the
\* first time word of TIME_OF_DAY that occurs, else (14, 0)
get_time_of_day(txt) ==
    LET clocks == {k \in 1..Len(txt) : txt[k] \in ClockWords}
        words == {w \in 1..Len(TimeWords) :
                     \E k \in 1..Len(txt) : HasTimeWord(txt[k], TimeWords[w])}
    IN IF clocks # {}
       THEN LET word == txt[CHOOSE k \in clocks : \A l \in clocks : k <= l]
                hour == ClockHour(word)
                meridiem == ClockMeridiem(word)
            IN IF meridiem = "pm" /\ hour # 12 THEN <<hour + 12, 0>>
               ELSE IF meridiem = "am" /\ hour = 12 THEN <<0, 0>>
               ELSE <<hour, 0>>
       ELSE IF words # {}
       THEN <<TIME_OF_DAY(TimeWords[CHOOSE w \in words :
                                       \A v \in words : w <= v]), 0>>
       ELSE <<DefaultHour, 0>>

\* datetime.replace(hour=.., minute=.., second=0, microsecond=0) raises
\* ValueError for an hour above 23 or a minute above 59
ReplaceRaises(hm) == hm[1] >= HoursPerDay \/ hm[2] >= MinutesPerHour

Replace(t, hm) ==
    DayOf(t) * SecondsPerDay + hm[1] * SecondsPerHour + hm[2] * SecondsPerMinute

HourOf(t) == (t % SecondsPerDay) \div SecondsPerHour

\* datetime + timedelta(days=n) raises OverflowError past year 9999
AddDaysRaises(t, n) == RefOrdinal + DayOf(t) + n > MaxOrdinal

AddDays(t, n) == t + n * SecondsPerDay

\* datetime.weekday(): Monday is 0
weekday(t) == DayOf(t) % DaysPerWeek

get_today_at_time(txt, ref, tz) ==
    Localize(tz, Replace(ref, get_time_of_day(txt)))

get_tomorrow_at_time(txt, ref, tz) ==
    Localize(tz, Replace(AddDays(ref, 1), get_time_of_day(txt)))

\* days ahead that are none on the target weekday itself
DaysAheadOrToday(target_weekday, current_weekday) ==
    (target_weekday - current_weekday) % DaysPerWeek

\* "if days_ahead <= 0: days_ahead += 7"
DaysAheadNext(target_weekday, current_weekday) ==
    IF target_weekday - current_weekday <= 0
    THEN target_weekday - current_weekday + DaysPerWeek
    ELSE target_weekday - current_weekday

\* "if days_ahead < 0: days_ahead += 7"
DaysAheadThis(target_weekday, current_weekday) ==
    IF target_weekday - current_weekday < 0
    THEN target_weekday - current_weekday + DaysPerWeek
    ELSE target_weekday - current_weekday

get_next_weekday(weekday_name, txt, ref, tz) ==
    Localize(tz,
        Replace(AddDays(ref, DaysAheadNext(WEEKDAYS(weekday_name), weekday(ref))),
                get_time_of_day(txt)))

get_this_weekday(weekday_name, txt, ref, tz) ==
    Localize(tz,
        Replace(AddDays(ref, DaysAheadThis(WEEKDAYS(weekday_name), weekday(ref))),
                get_time_of_day(txt)))

get_future_date(days_ahead, txt, ref, tz) ==
    Localize(tz, Replace(AddDays(ref, days_ahead), get_time_of_day(txt)))

\* a returned range (start, end) of aware datetimes that share a tzinfo: the
\* two wall-clock times and the utcoffset
RangeFrom(start, duration) ==
    <<start.naive, start.naive + duration, start.utcoffset>>

\* the loop "while current_date <= day2_date" of _parse_multi_day_range: the
\* next day is localized anew
RECURSIVE MultiDayWalk(_, _, _, _)
MultiDayWalk(current_date, day2_date, duration, tz) ==
    IF Instant(current_date) <= Instant(day2_date)
    THEN <<RangeFrom(current_date, duration)>>
            \o MultiDayWalk(Localize(tz, AddDays(current_date.naive, 1)),
                            day2_date, duration, tz)
    ELSE <<>>

\* "if day2_date <= day1_date: day2_date += timedelta(days=7)": the sum
\* keeps the utcoffset of the earlier date
EnsureAfter(day1_date, day2_date) ==
    IF Instant(day2_date) <= Instant(day1_date)
    THEN Plus(day2_date, DaysPerWeek * SecondsPerDay)
    ELSE day2_date

\* names compared by the weekday they denote
SameWeekday(day1_name, day2_name) == WEEKDAYS(day1_name) = WEEKDAYS(day2_name)

\* "if day1_name == day2_name"
SameDayName(day1_name, day2_name) == day1_name = day2_name

parse_multi_day_range(day1_name, day2_name, txt, ref, tz) ==
    LET duration == extract_duration(txt)
        day1_date == get_next_weekday(day1_name, txt, ref, tz)
        day2_next == get_next_weekday(day2_name, txt, ref, tz)
        day2_date == EnsureAfter(day1_date, day2_next)
    IN IF SameDayName(day1_name, day2_name)
       THEN <<RangeFrom(day1_date, duration)>>
       ELSE MultiDayWalk(day1_date, day2_date, duration, tz)

Pair(txt, k, first, second) ==
    k < Len(txt) /\ txt[k] \in first /\ txt[k + 1] \in second

Triple(txt, k, first, second, third) ==
    k + 1 < Len(txt) /\ txt[k] \in first /\ txt[k + 1] \in second
                     /\ txt[k + 2] \in third

\* re.search of each pattern class of parse: the place of the match, 0 for none
MatchAt(class, txt) ==
    CASE class = "now" ->
            FirstAt(txt, LAMBDA k : txt[k] \in {"now", "currently"})
      [] class = "today" -> FirstAt(txt, LAMBDA k : txt[k] = "today")
      [] class = "tonight" -> FirstAt(txt, LAMBDA k : txt[k] = "tonight")
      [] class = "tomorrow" -> FirstAt(txt, LAMBDA k : txt[k] = "tomorrow")
      [] class = "next_weekday" ->
            FirstAt(txt, LAMBDA k : Pair(txt, k, {"next"}, WeekdayNames))
      [] class = "this_weekday" ->
            FirstAt(txt, LAMBDA k : Pair(txt, k, {"this"}, WeekdayNames))
      [] class = "multi_day" ->
            FirstAt(txt, LAMBDA k :
                Triple(txt, k, WeekdayNames, {"and"}, WeekdayNames))
      [] class = "single_weekday" ->
            FirstAt(txt, LAMBDA k : txt[k] \in WeekdayNames)
      [] class = "in_days" ->
            FirstAt(txt, LAMBDA k : Pair(txt, k, {"in"}, DayCounts))
      [] class = "in_weeks" ->
            FirstAt(txt, LAMBDA k : Pair(txt, k, {"in"}, WeekCounts))
      [] class = "next_week" ->
            FirstAt(txt, LAMBDA k : Pair(txt, k, {"next"}, {"week"}))
      [] class = "time_only" -> FirstAt(txt, LAMBDA k : txt[k] \in ClockWords)

\* the pattern classes in the order parse tries them, last first
ReversedOrder ==
    <<"time_only", "next_week", "in_weeks", "in_days", "single_weekday",
      "multi_day", "this_weekday", "next_weekday", "tomorrow", "tonight",
      "today", "now">>

\* the pattern classes in the order parse tries them
PatternOrder ==
    <<"now", "today", "tonight", "tomorrow", "next_weekday", "this_weekday",
      "multi_day", "single_weekday", "in_days", "in_weeks", "next_week",
      "time_only">>

\* the first class of an order that matches; "none" when no class does
FirstMatch(order, txt) ==
    LET hits == {c \in 1..Len(order) : MatchAt(order[c], txt) > 0}
    IN IF hits = {} THEN "none"
       ELSE order[CHOOSE c \in hits : \A d \in hits : c <= d]

\* the days a class adds to the reference time before replace(); 0 for none
DaysAdded(class, txt, ref) ==
    LET k == MatchAt(class, txt)
    IN CASE class = "in_days" -> NumberOf(txt[k + 1])
         [] class = "in_weeks" -> NumberOf(txt[k + 1]) * DaysPerWeek
         [] class = "next_week" -> DaysPerWeek
         [] OTHER -> 0

\* the body of the "if" of one pattern class: does it raise
ClassRaises(class, txt, ref) ==
    /\ class # "now"
    /\ \/ AddDaysRaises(ref, DaysAdded(class, txt, ref))
       \/ ReplaceRaises(get_time_of_day(txt))

\* the body of the "if" of one pattern class: the ranges it returns; ref is
\* the wall-clock time of self.reference_time
ClassRanges(class, txt, ref, tz) ==
    LET duration == extract_duration(txt)
        k == MatchAt(class, txt)
        One(start) == <<RangeFrom(start, duration)>>
    IN CASE class = "now" -> One(Localize(tz, ref))
         [] class = "today" -> One(get_today_at_time(txt, ref, tz))
         [] class = "tonight" ->
               LET start == get_today_at_time(txt, ref, tz)
               IN IF HourOf(start.naive) < EveningStartsAt
                  THEN One([start EXCEPT
                              !.naive = Replace(@, <<TonightHour, 0>>)])
                  ELSE One(start)
         [] class = "tomorrow" -> One(get_tomorrow_at_time(txt, ref, tz))
         [] class = "next_weekday" ->
               One(get_next_weekday(txt[k + 1], txt, ref, tz))
         [] class = "this_weekday" ->
               One(get_this_weekday(txt[k + 1], txt, ref, tz))
         [] class = "multi_day" ->
               parse_multi_day_range(txt[k], txt[k + 2], txt, ref, tz)
         [] class = "single_weekday" ->
               One(get_next_weekday(txt[k], txt, ref, tz))
         [] class \in {"in_days", "in_weeks", "next_week"} ->
               One(get_future_date(DaysAdded(class, txt, ref), txt, ref, tz))
         [] class = "time_only" ->
               LET start == get_today_at_time(txt, ref, tz)
               IN IF Instant(start) < Instant(Localize(tz, ref))
                  THEN One(get_tomorrow_at_time(txt, ref, tz))
                  ELSE One(start)

\* TemporalExpressionParser(tz, ref).parse(txt), ref a naive datetime that
\* the constructor localizes
\* how parse ends when class is the first class that matches
ClassOutcome(class, txt, ref, tz) ==
    IF class = "none" THEN [raised |-> FALSE, ranges |-> <<>>]
    ELSE IF ClassRaises(class, txt, ref)
    THEN [raised |-> TRUE, ranges |-> <<>>]
    ELSE [raised |-> FALSE, ranges |-> ClassRanges(class, txt, ref, tz)]

parse(txt, ref, tz) ==
    CHOOSE outcome \in {ClassOutcome(class, txt, ref, tz) :
                           class \in {FirstMatch(PatternOrder, txt)}} : TRUE

---------------------------------------------------------------------------
(* The parser's inputs and its call *)

\* the words of the explored texts
Vocabulary ==
    {"now", "today", "tonight", "tomorrow", "next", "this", "and", "week",
     "in", "2 days", "2 weeks", "at 5pm", "at 13pm", "monday", "friday"}

\* what may follow a weekday phrase
Tails ==
    {<<>>, <<"evening">>, <<"at 12am">>, <<"at 13pm">>, <<"for 2 hours">>,
     <<"in", "4000000 days">>, <<"for 0 hours">>, <<"for 30 minutes">>,
     <<"for 0 minutes">>, <<"for 30 minutes", "for 2 hours">>}

\* "next <weekday>", "<weekday>", "<weekday> and <weekday>" for every name
WeekdayPhrases ==
    {<<"next", d>> : d \in WeekdayNames}
    \cup {<<d>> : d \in WeekdayNames}
    \cup {<<d, "and", e>> : d \in WeekdayNames, e \in WeekdayNames}
    \cup {<<"in", "4000000 days">>}

\* reference times, on the wall clock of the user: a morning and a late
\* evening of each explored day
ReferenceTimes ==
    {d * SecondsPerDay + h * SecondsPerHour + 30 * SecondsPerMinute :
        d \in 0..MaxRefDay, h \in {9, 21}}

NotParsed == [raised |-> FALSE, ranges |-> <<>>]

InitParser ==
    /\ text = <<>>
    /\ reference_time = 0
    /\ user_timezone = "UTC"
    /\ parsed = NotParsed

\* the caller writes one more word
AddWord ==
    /\ parsed = NotParsed /\ reference_time = 0
    /\ Len(text) < MaxWords
    /\ \E w \in Vocabulary : text' = Append(text, w)
    /\ UNCHANGED <<reference_time, user_timezone, parsed>>
    /\ UNCHANGED engineVars
    /\ UNCHANGED storeVars

\* the caller writes a weekday phrase
SayWeekdays ==
    /\ text = <<>> /\ reference_time = 0
    /\ \E phrase \in WeekdayPhrases, tail \in Tails : text' = phrase \o tail
    /\ UNCHANGED <<reference_time, user_timezone, parsed>>
    /\ UNCHANGED engineVars
    /\ UNCHANGED storeVars

\* TemporalExpressionParser(tz, ref).parse(text)
Parse ==
    /\ reference_time = 0
    /\ \E ref \in ReferenceTimes, tz \in Zones :
          /\ reference_time' = ref
          /\ user_timezone' = tz
          /\ parsed' = parse(text, ref, tz)
    /\ UNCHANGED text
    /\ UNCHANGED engineVars
    /\ UNCHANGED storeVars

\* parse on every explored text
NextParse == AddWord \/ Parse

\* parse on every weekday phrase
NextWeekday == SayWeekdays \/ Parse

---------------------------------------------------------------------------
(* Specifications *)

Init == InitEngine /\ InitStore /\ InitParser

\* the pure function resolve_conflicts on every explored list
Next == NextResolve

Spec == Init /\ [][Next]_vars

SpecDetect == Init /\ [][NextDetect]_vars

SpecSearch == Init /\ [][NextSearch]_vars

\* find_free_slots on every explored list of busy times
NextGaps == AddBusyEvent \/ FindFreeSlots

SpecGaps == Init /\ [][NextGaps]_vars

SpecParse == Init /\ [][NextParse]_vars

SpecWeekday == Init /\ [][NextWeekday]_vars

\* one engine entry point on every explored store, every write failing or not
NextStore ==
    \/ CreateEvent
    \/ OptimizeRead
    \/ OptimizeSave
    \/ ExamPrepare
    \/ ExamSave
    \/ BulkUpdate
    \/ BulkDelete

SpecStore == Init /\ [][NextStore]_vars

(* Texts. A text is the string of its words joined by one blank; a word of  *)
(* the explored vocabulary is made of letters and digits, a clock time      *)
(* also of a colon.                                                         *)

UpperLetters == "ABCDEFGHIJKLMNOPQRSTUVWXYZ"
LowerLetters == "abcdefghijklmnopqrstuvwxyz"
Digits == "0123456789"

\* the character i of a string, nothing beyond its end
CharAt(s, i) == IF i \in 1..Len(s) THEN SubSeq(s, i, i) ELSE ""

\* "needle in hay" of two strings
Occurs(needle, hay) ==
    \E i \in 1..(Len(hay) - Len(needle) + 1) :
        SubSeq(hay, i, i + Len(needle) - 1) = needle

LowerChar(c) ==
    IF Occurs(c, UpperLetters)
    THEN CharAt(LowerLetters,
                CHOOSE k \in 1..Len(UpperLetters) : CharAt(UpperLetters, k) = c)
    ELSE c

\* str.lower()
RECURSIVE Lower(_)
Lower(s) ==
    IF Len(s) = 0 THEN ""
    ELSE LowerChar(CharAt(s, 1)) \o Lower(SubSeq(s, 2, Len(s)))

\* " ".join(words)
RECURSIVE Join(_)
Join(words) ==
    IF Len(words) = 0 THEN ""
    ELSE IF Len(words) = 1 THEN words[1]
    ELSE words[1] \o " " \o Join(Tail(words))

\* str.split() from the character i on, word being the word begun
RECURSIVE SplitFrom(_, _, _)
SplitFrom(s, i, word) ==
    LET ended == IF Len(word) = 0 THEN <<>> ELSE <<word>>
    IN IF i > Len(s) THEN ended
       ELSE IF CharAt(s, i) = " " THEN ended \o SplitFrom(s, i + 1, "")
       ELSE SplitFrom(s, i + 1, word \o CharAt(s, i))

Split(s) == SplitFrom(s, 1, "")

\* a character of the class \w
IsWordChar(c) == Occurs(LowerChar(c), LowerLetters \o Digits \o "_")

\* re.search(r'\b' + keyword + r'\b', text)
WordOccurs(keyword, s) ==
    \E i \in 1..(Len(s) - Len(keyword) + 1) :
        /\ SubSeq(s, i, i + Len(keyword) - 1) = keyword
        /\ i = 1 \/ ~IsWordChar(CharAt(s, i - 1))
        /\ i + Len(keyword) > Len(s) \/ ~IsWordChar(CharAt(s, i + Len(keyword)))

\* \w at the place i of a text; there is none before its start or past its end
IsWordAt(s, i) == i \in 1..Len(s) /\ IsWordChar(CharAt(s, i))

\* \b before the place i of a text
Boundary(s, i) == IsWordAt(s, i - 1) # IsWordAt(s, i)

\* the length of the run of blanks that begins at the place i
RECURSIVE SpacesAt(_, _)
SpacesAt(s, i) == IF CharAt(s, i) = " " THEN 1 + SpacesAt(s, i + 1) ELSE 0

\* the length of the run of digits that begins at the place i
RECURSIVE DigitsAt(_, _)
DigitsAt(s, i) ==
    IF i \in 1..Len(s) /\ Occurs(CharAt(s, i), Digits)
    THEN 1 + DigitsAt(s, i + 1)
    ELSE 0

LiteralAt(s, i, literal) == SubSeq(s, i, i + Len(literal) - 1) = literal

\* (a|b|...) at the place i: the length of the first alternative that stands
\* there, 0 for none
GroupAt(s, i, alternatives) ==
    LET hits == {k \in 1..Len(alternatives) :
                    /\ i + Len(alternatives[k]) - 1 <= Len(s)
                    /\ LiteralAt(s, i, alternatives[k])}
    IN IF hits = {} THEN 0
       ELSE Len(alternatives[CHOOSE k \in hits : \A l \in hits : k <= l])

\* (a|b|...)\b at the place i: the length of the first alternative that
\* stands there and ends at a word boundary, 0 for none
WordGroupAt(s, i, alternatives) ==
    LET hits == {k \in 1..Len(alternatives) :
                    /\ i + Len(alternatives[k]) - 1 <= Len(s)
                    /\ LiteralAt(s, i, alternatives[k])
                    /\ Boundary(s, i + Len(alternatives[k]))}
    IN IF hits = {} THEN 0
       ELSE Len(alternatives[CHOOSE k \in hits : \A l \in hits : k <= l])

\* \s*(a|b|...)?\b at the place i, which follows a digit: the length of the
\* match, -1 for none. The blanks are taken greedily and a unit after them
\* is tried first; blanks before a word that is no unit belong to the match,
\* blanks before anything else do not
UnitAt(s, i, units) ==
    LET blanks == SpacesAt(s, i)
        unit == WordGroupAt(s, i + blanks, units)
    IN IF unit > 0 THEN blanks + unit
       ELSE IF Boundary(s, i + blanks) THEN blanks
       ELSE IF blanks > 0 THEN 0
       ELSE -1

\* temporal_patterns of extract_task_title, matched at the place i of the
\* lower-cased text: the length of the match, 0 for none
TemporalPatternAt(pattern, s, i) ==
    IF ~Boundary(s, i) THEN 0
    ELSE CASE pattern = 1 ->
                 WordGroupAt(s, i, <<"tomorrow", "today", "tonight", "now",
                                     "currently", "right now">>)
           [] pattern = 2 ->
                 LET first == GroupAt(s, i, <<"next", "this", "last">>)
                     blanks == SpacesAt(s, i + first)
                     second == WordGroupAt(s, i + first + blanks,
                                   <<"week", "month", "year", "monday",
                                     "tuesday", "wednesday", "thursday",
                                     "friday", "saturday", "sunday">>)
                 IN IF first > 0 /\ blanks > 0 /\ second > 0
                    THEN first + blanks + second
                    ELSE 0
           [] pattern = 3 ->
                 LET first == GroupAt(s, i, <<"in", "at", "on">>)
                     blanks == SpacesAt(s, i + first)
                     digits == DigitsAt(s, i + first + blanks)
                     unit == UnitAt(s, i + first + blanks + digits,
                                 <<"am", "pm", "hour", "hours", "minute",
                                   "minutes", "day", "days", "week", "weeks">>)
                 IN IF first > 0 /\ blanks > 0 /\ digits > 0 /\ unit >= 0
                    THEN first + blanks + digits + unit
                    ELSE 0
           [] pattern = 4 ->
                 WordGroupAt(s, i, <<"morning", "afternoon", "evening",
                                     "night">>)
           [] pattern = 5 ->
                 LET hours == IF DigitsAt(s, i) >= 2 /\ CharAt(s, i + 2) = ":"
                              THEN 2
                              ELSE IF DigitsAt(s, i) >= 1
                                      /\ CharAt(s, i + 1) = ":"
                              THEN 1
                              ELSE 0
                     unit == UnitAt(s, i + hours + 3, <<"am", "pm">>)
                 IN IF /\ hours > 0
                       /\ DigitsAt(s, i + hours + 1) >= 2
                       /\ unit >= 0
                    THEN hours + 3 + unit
                    ELSE 0

\* re.sub(pattern, '', cleaned, flags=re.IGNORECASE) from the place i on:
\* what is left of the text s, of which lower is the lower-cased copy; a
\* match of n characters is left out and the search goes on behind it
RECURSIVE SubFrom(_, _, _, _)
SubFrom(pattern, s, lower, i) ==
    IF i > Len(s) THEN ""
    ELSE CHOOSE rest \in
            {IF n > 0 THEN SubFrom(pattern, s, lower, at + n)
             ELSE CharAt(s, at) \o SubFrom(pattern, s, lower, at + 1) :
                <<at, n>> \in {<<i, TemporalPatternAt(pattern, lower, i)>>}} :
            TRUE

\* re.sub of one of the temporal patterns on a whole text
Sub(pattern, s) ==
    CHOOSE rest \in {SubFrom(pattern, cleaned[1], cleaned[2], 1) :
                        cleaned \in {<<s, Lower(s)>>}} : TRUE

\* re.sub(r'^\s*(schedule|add|create|make|set up|book)\s+', '', cleaned): a
\* verb at the start goes with the blanks around it when a blank follows it
LeadingVerb(s) ==
    LET before == SpacesAt(s, 1)
        verb == GroupAt(Lower(s), before + 1,
                    <<"schedule", "add", "create", "make", "set up", "book">>)
        after == SpacesAt(s, before + verb + 1)
    IN IF verb > 0 /\ after > 0 THEN before + verb + after ELSE 0

---------------------------------------------------------------------------
(* ai_agent/views.py: the chat view *)

\* what the user writes to the chat, and when
ChatPhrases == {<<"tomorrow">>, <<"monday", "and", "tuesday">>}

ChatSubjects == {"exam", "gaming"}

ChatInputs ==
    {<<"schedule", "gaming">> \o phrase : phrase \in ChatPhrases}
    \cup {<<"delete", subject>> : subject \in ChatSubjects}

\* timezone.now() of the request
ChatTimes == {9 * SecondsPerHour + 30 * SecondsPerMinute}

\* any(keyword in user_input_lower for keyword in keywords)
HasKeyword(user_input_lower, keywords) ==
    \E keyword \in keywords : Occurs(keyword, user_input_lower)

\* _detect_intent: the keyword lists in the order they are tried
detect_intent(user_input) ==
    LET user_input_lower == Lower(Join(user_input))
    IN IF HasKeyword(user_input_lower,
                     {"delete", "remove", "cancel", "banish", "get rid of",
                      "erase", "clear", "eliminate", "drop"})
       THEN "delete"
       ELSE IF HasKeyword(user_input_lower,
                          {"update", "change", "modify", "edit", "reschedule",
                           "move", "shift", "adjust", "alter", "revise"})
       THEN "update"
       ELSE IF HasKeyword(user_input_lower,
                          {"what", "when", "where", "who", "which", "how many",
                           "show me", "list", "tell me", "do i have", "am i",
                           "is there", "are there", "can you show", "display",
                           "view", "see", "check", "find"})
       THEN "query"
       ELSE IF HasKeyword(user_input_lower,
                          {"schedule", "add", "create", "make", "set up",
                           "book", "plan", "arrange", "organize", "put",
                           "insert", "new"})
       THEN "create"
       ELSE "general"

\* TaskCategoryExtractor.CATEGORY_KEYWORDS, in the order of the dict
CATEGORY_KEYWORDS ==
    <<[category |-> "Exam",
       keywords |-> {"exam", "test", "quiz", "midterm", "final"}],
      [category |-> "Study",
       keywords |-> {"study", "review", "homework", "assignment", "reading"}],
      [category |-> "Gym",
       keywords |-> {"gym", "workout", "exercise", "fitness", "training",
                     "run", "jog"}],
      [category |-> "Social",
       keywords |-> {"meet", "meeting", "hangout", "party", "dinner", "lunch",
                     "coffee", "friend", "sleep", "rest", "nap", "bedtime",
                     "wake", "call"}],
      [category |-> "Gaming",
       keywords |-> {"game", "gaming", "play", "stream", "esports"}]>>

NoCategory == "None"

\* TaskCategoryExtractor.extract_category: the first category with a keyword
\* that is a word of the text
extract_category(user_input) ==
    LET text_lower == Lower(Join(user_input))
        hits == {c \in DOMAIN CATEGORY_KEYWORDS :
                    \E keyword \in CATEGORY_KEYWORDS[c].keywords :
                        WordOccurs(keyword, text_lower)}
    IN IF hits = {} THEN NoCategory
       ELSE CATEGORY_KEYWORDS[CHOOSE c \in hits : \A d \in hits : c <= d].category

\* TaskCategoryExtractor.extract_task_title: the temporal patterns are taken
\* out one after the other, each of what the one before left, then a verb
\* at the start, and the blanks are collapsed; a text of which nothing is left is its own title. The title is
\* given as its words
extract_task_title(user_input) ==
    CHOOSE title \in
        {IF Split(cleaned) = <<>> THEN Split(text_) ELSE Split(cleaned) :
            <<text_, cleaned>> \in
                {<<Join(user_input),
                   SubSeq(temporal, LeadingVerb(temporal) + 1, Len(temporal))>> :
                    temporal \in {Sub(5, Sub(4, Sub(3, Sub(2, Sub(1,
                                      Join(user_input))))))}}} : TRUE

\* what the chat view works out of a text before it touches the database
ChatPlan(user_input, now) ==
    [intent |-> detect_intent(user_input),
     category |-> extract_category(user_input),
     task_title |-> extract_task_title(user_input),
     parsed |-> parse(user_input, now, "UTC")]

\* the requests with the intent "create" that reach the loop of the view:
\* temporal_results, task_title and category are all there
ChatPlans ==
    LET created == {p \in {ChatPlan(user_input, now) :
                              user_input \in ChatInputs, now \in ChatTimes} :
                      /\ p.intent = "create"
                      /\ ~p.parsed.raised
                      /\ p.parsed.ranges # <<>>
                      /\ p.category # NoCategory}
    IN {[category |-> p.category, task_title |-> p.task_title,
         temporal_results |-> p.parsed.ranges] : p \in created}

\* the steps of a chat request that creates events
ChatSteps == {"chat", "sync", "save", "update"}

\* the chat view with the intent "create", up to the loop over the parsed
\* ranges: the objects the loop will create; user_token is the
\* google_calendar_token of request.user as the request has loaded it
ChatRequest ==
    /\ call.pc = "idle"
    /\ \E plan \in ChatPlans :
          LET rows == [k \in 1..Len(plan.temporal_results) |->
                          [MkRow(NoId, EngineUser, plan.category,
                                 plan.temporal_results[k][1]
                                    - plan.temporal_results[k][3],
                                 plan.temporal_results[k][2]
                                    - plan.temporal_results[k][3], TRUE)
                              EXCEPT !.title = plan.task_title]]
              found == plan.category \in db_categories
          IN call' = [NoCall EXCEPT
                        !.op = "chat",
                        !.pc = IF found THEN "chat" ELSE "done",
                        !.arg = rows, !.before = Persisted,
                        !.user_token = EngineUser \in db_tokens,
                        !.work = IF found THEN rows ELSE <<>>]
    /\ UNCHANGED <<db_events, db_logs, db_categories, next_id, request,
                   db_tokens, remote>>
    /\ UNCHANGED engineVars
    /\ UNCHANGED parserVars

\* one Event.objects.create of the loop: the INSERT, committed on its own
\* since the view opens no transaction; an exception ends the loop and is
\* logged. For a connected user the post_save receiver follows
ChatCreate ==
    /\ call.pc = "chat" /\ call.op = "chat"
    /\ \E fault \in BOOLEAN :
          LET rest == Tail(call.work)
              row == [Head(call.work) EXCEPT !.id = next_id]
          IN IF CleanFails(row) \/ fault
             THEN /\ call' = [call EXCEPT !.pc = "done", !.failed = TRUE,
                                          !.writes = @ + 1]
                  /\ UNCHANGED <<db_events, next_id>>
             ELSE /\ db_events' = Put(db_events, row)
                  /\ next_id' = next_id + 1
                  /\ call' = [call EXCEPT
                                !.pc = IF call.user_token THEN "sync"
                                       ELSE IF rest = <<>> THEN "done"
                                       ELSE "chat",
                                !.work = rest,
                                !.writes = @ + 1,
                                !.result = Append(@, row)]
    /\ UNCHANGED <<db_logs, db_categories, request, db_tokens, remote>>
    /\ UNCHANGED engineVars
    /\ UNCHANGED parserVars

\* where the loop goes on after the receiver of a created row
AfterSync == IF call.work = <<>> THEN "done" ELSE "chat"

\* the post_save receiver of the row just created for a connected user,
\* first step: sync_event_create has the remote event inserted; a token
\* that get_calendar_service has refreshed is stored at once
ChatSync ==
    /\ call.pc = "sync" /\ call.op = "chat"
    /\ \E expired \in BOOLEAN :
          /\ expired => EngineUser \notin request.tx.tokens
          /\ db_tokens' = Refreshed(db_tokens, EngineUser, expired, db_tokens)
    /\ LET sent == <<MkRequest("insert", Last(call.result).id)>>
       IN /\ remote' = remote \o sent
          /\ call' = [call EXCEPT !.pc = "save", !.sent = @ \o sent]
    /\ UNCHANGED <<db_events, db_logs, db_categories, next_id, request>>
    /\ UNCHANGED engineVars
    /\ UNCHANGED parserVars

\* second step: event.save(update_fields=['google_calendar_id']), a commit
\* of its own; when the row is gone the save affects no row and raises,
\* sync_event_create logs the exception and the receiver is over. While a
\* delete block that has deleted the row is open, the save waits for its end
ChatSyncSave ==
    /\ call.pc = "save" /\ call.op = "chat"
    /\ Last(call.result).id \notin Locked(request.tx)
    /\ LET i == Last(call.result).id
           found == i \in DOMAIN db_events
       IN /\ db_events' = IF found
                          THEN Put(db_events,
                                   [db_events[i] EXCEPT !.google_calendar_id = i])
                          ELSE db_events
          /\ call' = [call EXCEPT
                        !.pc = IF found THEN "update" ELSE AfterSync,
                        !.result = [@ EXCEPT ![Len(@)].google_calendar_id = i]]
    /\ UNCHANGED <<db_logs, db_categories, next_id, request, db_tokens,
                   remote>>
    /\ UNCHANGED engineVars
    /\ UNCHANGED parserVars

\* third step: the post_save of that save; sync_event_update has the remote
\* event updated from the object in memory
ChatSyncUpdate ==
    /\ call.pc = "update" /\ call.op = "chat"
    /\ \E expired \in BOOLEAN :
          /\ expired => EngineUser \notin request.tx.tokens
          /\ db_tokens' = Refreshed(db_tokens, EngineUser, expired, db_tokens)
    /\ LET sent == <<MkRequest("update", Last(call.result).id)>>
       IN /\ remote' = remote \o sent
          /\ call' = [call EXCEPT !.pc = AfterSync, !.sent = @ \o sent]
    /\ UNCHANGED <<db_events, db_logs, db_categories, next_id, request>>
    /\ UNCHANGED engineVars
    /\ UNCHANGED parserVars

ChatListLimit == 20     \* [:20]
ChatDeleteLimit == 3    \* [:3]

FirstN(list, n) == SubSeq(list, 1, IF Len(list) < n THEN Len(list) ELSE n)

\* list(Event.objects.filter(user=user).order_by('-start_time')[:20]): rows
\* of one start_time come in the order the database returns them
Listings(rows, usr) ==
    LET mine == {i \in DOMAIN rows : rows[i].user = usr}
        n == Cardinality(mine)
        orders == {f \in [1..n -> mine] :
                      /\ \A j, k \in 1..n : j # k => f[j] # f[k]
                      /\ \A k \in 1..(n - 1) :
                            rows[f[k]].start_time >= rows[f[k + 1]].start_time}
    IN {FirstN([k \in 1..n |-> rows[f[k]]], ChatListLimit) : f \in orders}

\* "word in event_title_lower"
InTitle(word, title) == Occurs(word, Lower(Join(title)))

\* the score of a title in the delete branch: nothing without a match of a
\* word longer than 4, else 2 for each such word and 1 for each shorter one
RECURSIVE WordPoints(_, _)
WordPoints(input_words, title) ==
    IF input_words = <<>> THEN 0
    ELSE WordPoints(Tail(input_words), title)
         + (IF ~InTitle(Head(input_words), title) THEN 0
            ELSE IF Len(Head(input_words)) > 4 THEN 2 ELSE 1)

TitleScore(input_words, title) ==
    IF \E k \in 1..Len(input_words) :
          Len(input_words[k]) > 4 /\ InTitle(input_words[k], title)
    THEN WordPoints(input_words, title)
    ELSE 0

\* input_words of the delete branch
InputWords(user_input) ==
    LET stop_words == {"delete", "remove", "cancel", "my", "the", "a", "an",
                       "test", "please", "can", "you"}
    IN SelectSeq(Split(Lower(Join(user_input))),
                 LAMBDA w : Len(w) > 2 /\ w \notin stop_words)

\* event_scores: the listed events of a score above 0, each with its score
EventScores(user_events, scores) ==
    SelectSeq([k \in 1..Len(user_events) |->
                  [event |-> user_events[k], score |-> scores[k]]],
              LAMBDA p : p.score > 0)

\* events_to_delete: the events of the highest score, or without a scored
\* event the events of the category, three at most, in the order of the list
BestMatches(event_scores, user_events, category) ==
    LET best == SelectSeq(event_scores,
                    LAMBDA p : \A k \in 1..Len(event_scores) :
                                  event_scores[k].score <= p.score)
    IN IF event_scores # <<>>
       THEN FirstN([k \in 1..Len(best) |-> best[k].event], ChatDeleteLimit)
       ELSE IF category # NoCategory
       THEN FirstN(SelectSeq(user_events, LAMBDA e : e.category = category),
                   ChatDeleteLimit)
       ELSE <<>>

\* events_to_delete of the delete branch
DeleteCandidates(user_events, user_input) ==
    BestMatches(
        EventScores(user_events,
            [k \in 1..Len(user_events) |->
                TitleScore(InputWords(user_input), user_events[k].title)]),
        user_events, extract_category(user_input))

DeleteInputs == {u \in ChatInputs : detect_intent(u) = "delete"}

\* the titles of the rows: the name of the category for a row of
\* EventViewSet.create, the task title for a row of the chat
ChatTitles ==
    {<<c>> : c \in CategoryNames} \cup {p.task_title : p \in ChatPlans}

\* the scores and the category of the delete branch for the texts and the
\* titles above
TitleScores ==
    [user_input \in DeleteInputs |->
        [title \in ChatTitles |->
            TitleScore(InputWords(user_input), title)]]

DeleteCategory == [user_input \in DeleteInputs |-> extract_category(user_input)]

\* the chat view with the intent "delete", up to "if events_to_delete:": the
\* events are read before the transaction is begun, and request.todo holds
\* the objects as they were read. One such request is followed
ChatDeleteRead ==
    /\ call.pc # "done"
    /\ request.pc = "idle" /\ request.delete_pc = "idle"
    /\ \E user_events \in Listings(db_events, EngineUser) :
          \E user_input \in DeleteInputs :
             \E events_to_delete \in
                   {BestMatches(
                       EventScores(user_events,
                           [k \in 1..Len(user_events) |->
                               TitleScores[user_input][user_events[k].title]]),
                       user_events, DeleteCategory[user_input])} :
                /\ events_to_delete # <<>>
                /\ request' = [NoCall EXCEPT
                                 !.op = "chat_delete", !.pc = "block",
                                 !.todo = events_to_delete,
                                 !.delete_pc = "read"]
    /\ UNCHANGED <<db_events, db_logs, db_categories, next_id, call,
                   db_tokens, remote>>
    /\ UNCHANGED engineVars
    /\ UNCHANGED parserVars

\* event.delete() of an object read earlier: the row of its id is deleted if
\* it is still there, and the post_delete receiver loads the user and sends
\* a request when the user has a token and the object, as it was read, a
\* google_calendar_id
DeleteStale(store, tx, e, expired) ==
    LET gone == [tx EXCEPT !.gone = @ \cup {e.id}]
        sync == PostDelete(e, ViewOf(store, gone).tokens, "load")
    IN IF sync = <<>> THEN [tx |-> gone, sent |-> <<>>, sync |-> <<>>]
       ELSE PostSave(gone, sync[1], expired, ViewOf(store, gone).tokens)

\* the chat view with the intent "delete", one turn of "for event in
\* events_to_delete: ... event.delete()" under transaction.atomic(): the
\* request of the post_delete receiver goes out at once, the deletion waits
\* in the open transaction for the commit. A failure rolls the block back
\* and is answered with an apology
ChatDelete ==
    /\ request.op = "chat_delete"
    /\ request.todo # <<>>
    /\ Head(request.todo).id \notin Locked(call.tx)
    /\ \E fault \in BOOLEAN :
          \E r \in {DeleteStale(Store, request.tx, Head(request.todo),
                                FALSE)} :
             IF fault
             THEN /\ request' = [NoCall EXCEPT !.delete_pc = "done"]
                  /\ UNCHANGED remote
             ELSE /\ request' = [request EXCEPT !.todo = Tail(@), !.tx = r.tx]
                  /\ remote' = remote \o r.sent
    /\ UNCHANGED <<db_events, db_logs, db_categories, next_id, call,
                   db_tokens>>
    /\ UNCHANGED engineVars
    /\ UNCHANGED parserVars

\* leaving the block after the last turn: the deletions are committed; no
\* audit record is written
ChatDeleteCommit ==
    /\ request.op = "chat_delete"
    /\ request.todo = <<>>
    /\ \E after \in {Atomic(Store, Closing(Store, request.tx, FALSE))} :
          /\ db_events' = after.events
          /\ db_logs' = after.logs
    /\ request' = [NoCall EXCEPT !.delete_pc = "done"]
    /\ UNCHANGED <<db_categories, next_id, call, db_tokens, remote>>
    /\ UNCHANGED engineVars
    /\ UNCHANGED parserVars

\* one chat request that creates events, among the requests of the users
NextChat ==
    \/ CreateEvent
    \/ GoogleCalendarCallback
    \/ ChatRequest
    \/ ChatCreate
    \/ ChatSync
    \/ ChatSyncSave
    \/ ChatSyncUpdate
    \/ ChatDeleteRead
    \/ ChatDelete
    \/ ChatDeleteCommit

SpecChat == Init /\ [][NextChat]_vars

\* the end of the study session of day 2
LateStart == StoreT0 + timedelta_minutes(SessionMinutes)

\* EventViewSet.create of one more event of the engine's user, which begins
\* when the study session of day 2 ends
CreateLateEvent ==
    /\ call.pc = "idle"
    /\ request.pc = "idle"
    /\ \A i \in DOMAIN db_events : db_events[i].start_time # LateStart
    /\ LET e == MkRow(NoId, EngineUser, "Gaming", LateStart, LateStart + Tick,
                      TRUE)
       IN request' = [Served(request) EXCEPT
                        !.op = "create", !.pc = "block",
                        !.work = <<e>>, !.todo = <<e>>,
                        !.user_token = EngineUser \in db_tokens]
    /\ UNCHANGED <<db_events, db_logs, db_categories, next_id, call,
                   db_tokens, remote>>
    /\ UNCHANGED engineVars
    /\ UNCHANGED parserVars

\* the engine's operations on stores that hold an event outside the window,
\* with the categories of populate_categories and those posted by the users
NextOutside ==
    \/ NextStore
    \/ PopulateCategories
    \/ CreateCategory
    \/ CreateLateEvent

SpecOutside == Init /\ [][NextOutside]_vars

\* the same operations for users who connect and disconnect a Google
\* calendar
NextSync ==
    \/ NextStore
    \/ GoogleCalendarCallback
    \/ GoogleCalendarDisconnect

SpecSync == Init /\ [][NextSync]_vars

\* optimize_schedule with a request of the same user served between its query
\* and its transaction
NextRace ==
    \/ GoogleCalendarCallback
    \/ GoogleCalendarDisconnect
    \/ CreateEvent
    \/ OptimizeRead
    \/ UpdateEvent
    \/ DestroyEvent
    \/ OptimizeSave

SpecRace == Init /\ [][NextRace]_vars

---------------------------------------------------------------------------
(* Properties of the pure functions *)

Finalized == resolved.finalized_events

\* the input event with the identity of an output event
InputOf(o) == events[o.id]

SameTimes(a, b) == a.start_time = b.start_time /\ a.end_time = b.end_time

IsValidEvent(e) == e.end_time > e.start_time

\* (-priority, start_time) of a is not after that of b
SortsNotAfter(a, b) == PriorityKeyLeq(a, b)

\* C1: resolve_conflicts never moves a non-flexible event: an event with
\* is_flexible = FALSE has the same start and end after the call as before it.
C1_NonFlexibleNeverMoved ==
    phase = "resolved" =>
        \A k \in 1..Len(Finalized) :
            ~InputOf(Finalized[k]).is_flexible
                => SameTimes(Finalized[k], InputOf(Finalized[k]))

\* C2: after resolve_conflicts on valid events, two output events that were
\* both placed (neither kept its original time for want of a slot) do not
\* overlap, whatever their durations.
C2_PlacedEventsDisjoint ==
    phase = "resolved" /\ (\A i \in 1..Len(events) : IsValidEvent(events[i])) =>
        \A k, l \in 1..Len(Finalized) :
            /\ k # l
            /\ Finalized[k].id \notin resolved.no_slot
            /\ Finalized[l].id \notin resolved.no_slot
            => ~events_overlap(Finalized[k], Finalized[l])

\* C3: detect_conflicts returns exactly the overlapping unordered pairs of
\* distinct events, each once, and nothing else.
C3_DetectExactlyOverlaps ==
    phase = "detected" =>
        /\ \A i, j \in 1..Len(events) :
              i < j =>
                  LET hits == {k \in 1..Len(conflicts) :
                                  conflicts[k] \in {<<i, j>>, <<j, i>>}}
                  IN Cardinality(hits) =
                        (IF events_overlap(events[i], events[j]) THEN 1 ELSE 0)
        /\ \A k \in 1..Len(conflicts) :
              /\ conflicts[k][1] # conflicts[k][2]
              /\ conflicts[k][1] \in 1..Len(events)
              /\ conflicts[k][2] \in 1..Len(events)

\* a list with a nested pair, a second overlapping pair and a disjoint pair,
\* where the early exit of the inner loop was taken
C3_Witness ==
    /\ phase = "detected"
    /\ Len(events) = 3
    /\ Len(conflicts) = 2
    /\ \E i, j \in 1..3 :
          /\ i # j
          /\ events[i].start_time < events[j].start_time
          /\ events[j].end_time < events[i].end_time
    /\ \E i, j \in 1..3 :
          i # j /\ events[j].start_time >= events[i].end_time

\* C4: resolve_conflicts returns a list of the input's length with the input's
\* set of identities, each identity once.
C4_IdentitiesPreserved ==
    phase = "resolved" =>
        /\ Len(Finalized) = Len(events)
        /\ {Finalized[k].id : k \in 1..Len(Finalized)} = 1..Len(events)

\* one event finalized in the first pass, one rescheduled, one kept for want
\* of a slot
C4_Witness ==
    /\ phase = "resolved"
    /\ Len(events) = 3
    /\ resolved.no_slot # {}
    /\ \E k \in 1..Len(Finalized) :
          /\ Finalized[k].id \in resolved.deferred \ resolved.no_slot
          /\ ~SameTimes(Finalized[k], InputOf(Finalized[k]))
    /\ \E k \in 1..Len(Finalized) : Finalized[k].id \notin resolved.deferred

\* C5: every event keeps end - start and its category through
\* resolve_conflicts.
C5_DurationAndCategoryKept ==
    phase = "resolved" =>
        \A k \in 1..Len(Finalized) :
            /\ get_event_duration(Finalized[k])
                  = get_event_duration(InputOf(Finalized[k]))
            /\ Finalized[k].category = InputOf(Finalized[k]).category
            /\ Finalized[k].is_flexible = InputOf(Finalized[k]).is_flexible

\* an event was moved to a later slot that is longer than the event
C5_Witness ==
    /\ phase = "resolved"
    /\ \E k \in 1..Len(Finalized) :
          /\ Finalized[k].id \in resolved.deferred \ resolved.no_slot
          /\ Finalized[k].start_time > InputOf(Finalized[k]).start_time
          /\ get_event_duration(Finalized[k]) = 2 * Tick

\* C6: given two overlapping events of different priorities, the one of higher
\* priority keeps its start and end and the other one is rescheduled so that
\* the two no longer overlap (stated for a list of exactly these two events,
\* for which a slot was found); and an event is moved only if at its input
\* times it overlaps another input event that does not sort after it.
C6_HigherPriorityWins ==
    phase = "resolved" =>
        /\ Len(events) = 2 /\ resolved.no_slot = {} =>
              \A k, l \in 1..2 :
                  /\ events_overlap(InputOf(Finalized[k]), InputOf(Finalized[l]))
                  /\ priority_level(Finalized[k].category)
                        > priority_level(Finalized[l].category)
                  => /\ SameTimes(Finalized[k], InputOf(Finalized[k]))
                     /\ ~events_overlap(Finalized[k], Finalized[l])
        /\ \A k \in 1..Len(Finalized) :
              ~SameTimes(Finalized[k], InputOf(Finalized[k])) =>
                  \E i \in 1..Len(events) :
                      /\ i # Finalized[k].id
                      /\ events_overlap(events[i], InputOf(Finalized[k]))
                      /\ SortsNotAfter(events[i], InputOf(Finalized[k]))

---------------------------------------------------------------------------
(* Properties of the persisting entry points *)

Done(op) == call.op = op /\ call.pc = "done"

\* rows without what the receivers have stored in them
Unsynced(rows) ==
    [i \in DOMAIN rows |-> [rows[i] EXCEPT !.google_calendar_id = NoId]]

\* the Event rows after a complete optimize_schedule(w) on rows, alone
OptimizeOutcome(rows, w) ==
    LET evs == EventsInRange(rows, EngineUser, w[1], w[2])
        optimized_events == IF evs = <<>> THEN <<>> ELSE resolve_conflicts(evs)
    IN Over(rows, [i \in {optimized_events[k].id :
                             k \in DOMAIN optimized_events} |->
                     LET k == CHOOSE k \in DOMAIN optimized_events :
                                 optimized_events[k].id = i
                     IN optimized_events[k]])

\* the Event rows after the request served in between, alone
RequestOutcome(rows, req) ==
    IF req[2] \notin DOMAIN rows THEN rows
    ELSE IF req[1] = "update" THEN Put(rows, ShiftLater(rows[req[2]]))
    ELSE Remove(rows, {req[2]})

\* C7: optimize_schedule interleaved with another mutating request on the same
\* owner's events is serializable: once both have ended, the final Event rows
\* are those of running the two one after the other in some order.
C7_Serializable ==
    /\ Done("optimize") /\ ~call.failed
    /\ call.between # <<>> /\ request.pc = "idle"
    => \/ Unsynced(db_events)
            = Unsynced(RequestOutcome(
                           OptimizeOutcome(call.before.events, call.window),
                           call.between))
       \/ Unsynced(db_events)
            = Unsynced(OptimizeOutcome(
                           RequestOutcome(call.before.events, call.between),
                           call.window))

\* C8: optimize_schedule is all-or-nothing: when a save or the audit write
\* fails, the persisted events and audit records are those of before the call
\* and the exception reaches the caller.
C8_OptimizeAllOrNothing ==
    Done("optimize") /\ call.failed =>
        /\ call.raised
        /\ db_events = call.before.events
        /\ db_logs = call.before.logs

\* the audit write failed after the saves of two or more events, one of them
\* moved by resolve_conflicts
C8_Witness ==
    /\ Done("optimize") /\ call.failed
    /\ Len(call.work) >= 2
    /\ call.writes = Len(call.work) + 1
    /\ \E k \in 1..Len(call.work) :
          call.work[k] # call.before.events[call.work[k].id]

\* C9: create_exam_study_sessions is all-or-nothing: when a write fails after
\* some sessions were saved, no session of the call is persisted, no event is
\* moved, no audit record exists, the rest of the persisted state is as before
\* the call, and the exception reaches the caller.
C9_ExamAllOrNothing ==
    Done("exam") /\ call.failed /\ call.writes >= 2 =>
        /\ call.raised
        /\ db_events = call.before.events
        /\ db_logs = call.before.logs
        /\ call.made \cap db_categories = {}

\* C10: bulk_update_events and bulk_delete_events are all-or-nothing: when a
\* save of bulk_update or the audit write of bulk_delete fails, every event
\* persisted before the call is persisted unchanged, no audit record was added
\* and the exception reaches the caller.
C10_BulkAllOrNothing ==
    (Done("bulk_update") \/ Done("bulk_delete")) /\ call.failed =>
        /\ call.raised
        /\ db_events = call.before.events
        /\ db_logs = call.before.logs

\* bulk_update failed in the database at its second write or later, after the
\* save of an event with new times
C10_Witness ==
    /\ Done("bulk_update") /\ call.failed
    /\ Len(call.arg) >= 2
    /\ call.writes >= 2
    /\ \A k \in 1..Len(call.arg) : ~CleanFails(call.arg[k])
    /\ call.arg[1] # db_events[call.arg[1].id]

EngineOps == {"optimize", "exam", "bulk_update", "bulk_delete"}

\* C11: a persisting engine call that returns without error has appended
\* exactly one audit record, also for an empty window, an empty event list or
\* an empty id list; a call that raises has appended none.
C11_OneAuditRecord ==
    call.op \in EngineOps /\ call.pc = "done" =>
        IF call.raised THEN Len(db_logs) = Len(call.before.logs)
        ELSE Len(db_logs) = Len(call.before.logs) + 1

\* C12: no request is sent to the remote calendar between the start and the
\* commit or rollback of an engine atomic unit; a unit that was rolled back
\* has caused no remote create, update or delete.
C12_NoRemoteCallInUnit ==
    call.op \in EngineOps /\ call.pc = "done" => call.sent = <<>>

\* C13: every persisted event has end_time > start_time: a save of an event
\* with end_time <= start_time raises before any write, and no engine
\* operation persists such an event.
C13_EndAfterStart ==
    /\ \A i \in DOMAIN db_events : IsValidEvent(db_events[i])
    /\ Done("bulk_update")
       /\ (\E k \in 1..Len(call.arg) : CleanFails(call.arg[k]))
       => call.raised /\ db_events = call.before.events

\* bulk_update_events was handed a valid moved event followed by one with
\* end_time = start_time, and the database accepted every write it was given
C13_Witness ==
    /\ Done("bulk_update")
    /\ Len(call.arg) >= 2
    /\ ~CleanFails(call.arg[1])
    /\ CleanFails(call.arg[2])
    /\ call.writes = 2
    /\ call.raised

---------------------------------------------------------------------------
(* Properties of find_free_slots *)

SlotsFound == search.free_slots

\* C14: every range returned by find_free_slots is at least the minimum
\* duration long, lies inside the window and overlaps no busy event, also
\* when busy events start before the window, end after it or are nested.
C14_FreeSlotsAreFree ==
    phase = "searched" =>
        \A k \in 1..Len(SlotsFound) :
            LET slot_start == SlotsFound[k][1]
                slot_end == SlotsFound[k][2]
            IN /\ slot_end - slot_start
                    >= timedelta_minutes(search.duration_minutes)
               /\ search.start_date <= slot_start
               /\ slot_end <= search.end_date
               /\ \A i \in 1..Len(events) :
                     ~(slot_start < events[i].end_time
                       /\ slot_end > events[i].start_time)

\* a slot of a minute or more before and after busy events, one of which
\* lies inside an earlier one and ends before it
C14_Witness ==
    /\ phase = "searched"
    /\ search.duration_minutes = 1
    /\ Len(SlotsFound) = 2
    /\ \E i, j \in 1..Len(events) :
          /\ i < j
          /\ events[i].start_time <= events[j].start_time
          /\ events[j].end_time < events[i].end_time

---------------------------------------------------------------------------
(* Properties of create_exam_study_sessions *)

\* needle occurs in hay as a run of consecutive words
Contains(hay, needle) ==
    \E i \in 0..(Len(hay) - Len(needle)) :
        SubSeq(hay, i + 1, i + Len(needle)) = needle

\* C15: create_exam_study_sessions(exam, N) with N in 2..3 and the default
\* duration returns exactly N events, each of category Study with the exam's
\* title in its title, each ending before the exam starts, one per day on the
\* N days before the exam's day at 14:00, earliest first.
C15_StudySessionsBeforeExam ==
    Done("exam") /\ ~call.raised =>
        LET exam == call.arg[1]
            N == call.arg[2]
        IN /\ Len(call.result) = N
           /\ \A k \in 1..Len(call.result) :
                 LET session == call.result[k]
                 IN /\ session.category = "Study"
                    /\ Contains(session.title, exam.title)
                    /\ session.end_time < exam.start_time
                    /\ session.start_time
                          = (DayOf(exam.start_time) - (N - k + 1)) * SecondsPerDay
                            + StudyHour * SecondsPerHour

\* three sessions returned for an exam at midnight
C15_Witness ==
    /\ Done("exam") /\ ~call.raised
    /\ call.arg[2] = 3
    /\ Len(call.result) = 3
    /\ call.arg[1].start_time = 3 * SecondsPerDay

---------------------------------------------------------------------------
(* Properties of TemporalExpressionParser.parse *)

WasParsed == reference_time # 0

\* the pattern classes in the order the resolver is specified to try them
SpecifiedOrder ==
    <<"now", "today", "tonight", "tomorrow", "next_weekday", "this_weekday",
      "multi_day", "single_weekday", "in_days", "in_weeks", "next_week",
      "time_only">>

MatchingClasses ==
    {c \in 1..Len(SpecifiedOrder) : MatchAt(SpecifiedOrder[c], text) > 0}

\* the class that decided, and the weekday names it matched
DecidingClass == FirstMatch(SpecifiedOrder, text)

MatchedName(offset) == text[MatchAt(DecidingClass, text) + offset]

\* the days from the reference date to the nearest later date on a weekday
DaysToNext(target_weekday) ==
    ((target_weekday - weekday(reference_time) - 1) % DaysPerWeek) + 1

\* the start of the k-th range on the wall clock of the user, and as an
\* instant; the reference time as the constructor localizes it
StartOf(k) == parsed.ranges[k][1]

StartInstant(k) == parsed.ranges[k][1] - parsed.ranges[k][3]

ReferenceInstant == Instant(Localize(user_timezone, reference_time))

\* C16: the pattern classes are tried in the order now, today, tonight,
\* tomorrow, next <weekday>, this <weekday>, <weekday> and <weekday>,
\* <weekday>, in N days, in N weeks, next week, clock time; the outcome for a
\* text is the outcome of the first class that matches it, whatever later
\* classes match too.
C16_FirstClassDecides ==
    WasParsed =>
        \A first \in {DecidingClass} :
            parsed = IF first = "none"
                     THEN [raised |-> FALSE, ranges |-> <<>>]
                     ELSE IF ClassRaises(first, text, reference_time)
                     THEN [raised |-> TRUE, ranges |-> <<>>]
                     ELSE [raised |-> FALSE,
                           ranges |-> ClassRanges(first, text, reference_time,
                                                  user_timezone)]

\* a text that matches three classes, decided by "today" although a weekday
\* stands before it
C16_Witness ==
    /\ WasParsed
    /\ ~parsed.raised
    /\ Cardinality(MatchingClasses) >= 3
    /\ DecidingClass = "today"
    /\ MatchAt("single_weekday", text) \in 1..(MatchAt("today", text) - 1)
    /\ DayOf(StartOf(1)) = DayOf(reference_time)

\* C17: "next <weekday>" and a bare "<weekday>" resolve to the nearest date
\* after the reference date that falls on that weekday: 1 to 7 days ahead,
\* 7 when the reference date is on that weekday.
C17_NextWeekdayStrictlyAfter ==
    /\ WasParsed
    /\ DecidingClass \in {"next_weekday", "single_weekday"}
    /\ ~parsed.raised
    => LET name == IF DecidingClass = "next_weekday" THEN MatchedName(1)
                   ELSE MatchedName(0)
           ahead == DayOf(StartOf(1)) - DayOf(reference_time)
       IN /\ Len(parsed.ranges) = 1
          /\ ahead \in 1..DaysPerWeek
          /\ weekday(StartOf(1)) = WEEKDAYS(name)
          /\ ahead = DaysToNext(WEEKDAYS(name))
          /\ weekday(reference_time) = WEEKDAYS(name) => ahead = DaysPerWeek

\* "next <weekday>" said on that weekday, resolved a week ahead
C17_Witness ==
    /\ WasParsed
    /\ DecidingClass = "next_weekday"
    /\ ~parsed.raised
    /\ weekday(reference_time) = WEEKDAYS(MatchedName(1))
    /\ DayOf(StartOf(1)) = DayOf(reference_time) + DaysPerWeek

\* C18: "<weekday> and <weekday>" with two names of the same weekday, in any
\* accepted spelling, gives exactly one entry, on the next occurrence of that
\* weekday.
C18_SameWeekdayOnce ==
    /\ WasParsed
    /\ DecidingClass = "multi_day"
    /\ ~parsed.raised
    /\ SameWeekday(MatchedName(0), MatchedName(2))
    => /\ Len(parsed.ranges) = 1
       /\ DayOf(StartOf(1))
             = DayOf(reference_time) + DaysToNext(WEEKDAYS(MatchedName(0)))

\* C19: "<weekday1> and <weekday2>" with different weekdays gives one entry
\* per day from the next weekday1 through the following weekday2:
\* ((weekday2 - weekday1) mod 7) + 1 entries, each a day after the one before
\* at the same time of day, none before the reference instant.
C19_MultiDayRange ==
    /\ WasParsed
    /\ DecidingClass = "multi_day"
    /\ ~parsed.raised
    /\ ~SameWeekday(MatchedName(0), MatchedName(2))
    => LET weekday1 == WEEKDAYS(MatchedName(0))
           weekday2 == WEEKDAYS(MatchedName(2))
           count == Len(parsed.ranges)
       IN /\ count = ((weekday2 - weekday1) % DaysPerWeek) + 1
          /\ count \in 2..DaysPerWeek
          /\ DayOf(StartOf(1)) = DayOf(reference_time) + DaysToNext(weekday1)
          /\ weekday(StartOf(count)) = weekday2
          /\ \A k \in 1..(count - 1) :
                StartOf(k + 1) = StartOf(k) + SecondsPerDay
          /\ \A k \in 1..count : StartInstant(k) >= ReferenceInstant

\* C20: parse never raises: for every text it returns a sequence of ranges,
\* empty exactly when no pattern class matches.
C20_NeverRaises ==
    WasParsed =>
        /\ ~parsed.raised
        /\ parsed.ranges = <<>> <=> DecidingClass = "none"

\* the relative expressions other than "today", written alone
RelativeClasses ==
    {"tomorrow", "next_weekday", "this_weekday", "in_days", "next_week"}

PlainRelative ==
    /\ DecidingClass \in RelativeClasses
    /\ Len(text) = IF DecidingClass = "tomorrow" THEN 1 ELSE 2

\* C21: for every reference instant and every relative expression other than
\* "today" (tomorrow, next <weekday>, this <weekday>, in N days, next week),
\* the first resolved range does not start before the reference instant.
C21_NotBeforeReference ==
    WasParsed /\ PlainRelative /\ ~parsed.raised =>
        StartInstant(1) >= ReferenceInstant

\* the duration the text asks for: its hours figure, else its minutes figure,
\* else one hour
SpecifiedDuration ==
    IF \E k \in 1..Len(text) : text[k] \in HoursWords
    THEN FigureOf(text[CHOOSE k \in 1..Len(text) :
                          /\ text[k] \in HoursWords
                          /\ \A l \in 1..(k - 1) : text[l] \notin HoursWords])
            * SecondsPerHour
    ELSE IF \E k \in 1..Len(text) : text[k] \in MinutesWords
    THEN FigureOf(text[CHOOSE k \in 1..Len(text) :
                          /\ text[k] \in MinutesWords
                          /\ \A l \in 1..(k - 1) : text[l] \notin MinutesWords])
            * SecondsPerMinute
    ELSE SecondsPerHour

\* C22: every returned range ends strictly after it starts, at start plus the
\* extracted duration (the hours figure if the text has one, else the minutes
\* figure, else one hour), for every duration figure the text can hold.
C22_EndIsStartPlusDuration ==
    WasParsed =>
        \A k \in 1..Len(parsed.ranges) :
            /\ parsed.ranges[k][2] > parsed.ranges[k][1]
            /\ parsed.ranges[k][2] = parsed.ranges[k][1] + SpecifiedDuration

---------------------------------------------------------------------------
(* Properties of the second pass of resolve_conflicts *)

\* the deferred events that found a slot, by their place in the output
PlacedAt ==
    {k \in 1..Len(Finalized) :
        Finalized[k].id \in resolved.deferred \ resolved.no_slot}

\* [t, t + duration) overlaps one of the events finalized before place k
BusyAt(k, t, duration) ==
    \E l \in 1..(k - 1) :
        t < Finalized[l].end_time /\ Finalized[l].start_time < t + duration

\* C23: every deferred event that finds a slot is placed at the earliest
\* instant t >= its original start such that [t, t + duration) overlaps no
\* event finalized before it (first-pass events and deferred events placed
\* earlier) and t + duration <= original start + 30 days.
C23_EarliestFreePlacement ==
    phase = "resolved" /\ (\A i \in 1..Len(events) : IsValidEvent(events[i])) =>
        \A k \in PlacedAt :
            LET event == Finalized[k]
                original == InputOf(event)
                duration == get_event_duration(original)
                earlier == {t \in {original.start_time}
                                \cup {Finalized[l].end_time : l \in 1..(k - 1)} :
                              original.start_time <= t /\ t < event.start_time}
            IN /\ event.start_time >= original.start_time
               /\ event.start_time + duration <= original.start_time + Horizon
               /\ ~BusyAt(k, event.start_time, duration)
               /\ \A t \in earlier : BusyAt(k, t, duration)

\* the deferred events, by their place in the output
DeferredAt == {k \in 1..Len(Finalized) : Finalized[k].id \in resolved.deferred}

\* the instants of the horizon of the event at place k from which its whole
\* duration is free of the events finalized before it
FreeInstants(k) ==
    LET original == InputOf(Finalized[k])
        duration == get_event_duration(original)
    IN {t \in {original.start_time}
                \cup {Finalized[l].end_time : l \in 1..(k - 1)} :
          /\ original.start_time <= t
          /\ t + duration <= original.start_time + Horizon
          /\ ~BusyAt(k, t, duration)}

\* C24: a deferred event for which no free slot of its length exists within 30
\* days after its original start is returned with its original start and end,
\* still overlapping a finalized event, and is part of the output.
C24_NoSlotKeepsTimes ==
    phase = "resolved" /\ (\A i \in 1..Len(events) : IsValidEvent(events[i])) =>
        /\ resolved.deferred \subseteq {Finalized[k].id : k \in 1..Len(Finalized)}
        /\ \A k \in DeferredAt :
              FreeInstants(k) = {} =>
                  /\ SameTimes(Finalized[k], InputOf(Finalized[k]))
                  /\ \E l \in 1..(k - 1) :
                        events_overlap(Finalized[k], Finalized[l])

---------------------------------------------------------------------------
(* find_free_slots against the gaps of the window *)

\* the busy events that intersect the searched window
Intersecting ==
    {i \in 1..Len(events) :
        /\ events[i].start_time < search.end_date
        /\ events[i].end_time > search.start_date}

\* the instant t of the window is covered by a busy event
Covered(t) ==
    \E i \in Intersecting :
        events[i].start_time <= t /\ t < events[i].end_time

\* the instants where a maximal gap of the window begins
GapStarts ==
    {t \in {search.start_date} \cup {events[i].end_time : i \in Intersecting} :
        search.start_date <= t /\ t < search.end_date /\ ~Covered(t)}

\* the end of the maximal gap that begins at t
GapEnd(t) ==
    LET later == {events[i].start_time : i \in Intersecting} \cup {search.end_date}
        ahead == {u \in later : u > t}
    IN CHOOSE u \in ahead : \A v \in ahead : u <= v

\* the maximal gaps of the window that are long enough
MaximalGaps ==
    {<<t, GapEnd(t)>> : t \in {u \in GapStarts :
        GapEnd(u) - u >= timedelta_minutes(search.duration_minutes)}}

\* the busy list with two neighbours exchanged
Exchanged(k) ==
    [i \in 1..Len(events) |->
        IF i = k THEN events[k + 1] ELSE IF i = k + 1 THEN events[k] ELSE events[i]]

SearchAgain(busy_events) ==
    find_free_slots(search.start_date, search.end_date,
                    search.duration_minutes, busy_events)

\* C25: find_free_slots returns exactly the maximal gaps of the window left
\* uncovered by the busy events that are at least the minimum duration long,
\* each once and in strictly ascending order; busy events outside the window
\* and the order of the busy list do not change the result.
C25_ExactlyMaximalGaps ==
    phase = "searched" =>
        /\ {SlotsFound[k] : k \in 1..Len(SlotsFound)} = MaximalGaps
        /\ \A k \in 1..(Len(SlotsFound) - 1) :
              SlotsFound[k][2] < SlotsFound[k + 1][1]
        /\ SearchAgain(SelectSeq(events,
               LAMBDA e : e.start_time < search.end_date
                          /\ e.end_time > search.start_date)) = SlotsFound
        /\ \A k \in 1..(Len(events) - 1) : SearchAgain(Exchanged(k)) = SlotsFound

\* a search of a window for a minute or more that finds a slot, over a busy
\* list that is not in start order and holds an event outside the window and
\* one inside it
C25_Witness ==
    /\ phase = "searched"
    /\ search.duration_minutes = 1
    /\ Len(SlotsFound) = 1
    /\ Intersecting # {}
    /\ Intersecting # 1..Len(events)
    /\ \E k \in 1..(Len(events) - 1) :
          events[k].start_time > events[k + 1].start_time

---------------------------------------------------------------------------
(* Ownership *)

\* the rows of a table that belong to another owner than the engine's user
RowsOfOthers(rows) ==
    [i \in {j \in DOMAIN rows : rows[j].user # EngineUser} |-> rows[i]]

\* C26: no engine operation invoked for a user creates, modifies or deletes an
\* event of another owner: after optimize_schedule,
\* create_exam_study_sessions, bulk_update_events and bulk_delete_events the
\* events of the other owners are those persisted before the call.
C26_OtherOwnersUntouched ==
    call.op \in EngineOps /\ call.pc = "done" =>
        RowsOfOthers(db_events) = RowsOfOthers(call.before.events)

---------------------------------------------------------------------------
(* Events created together *)

\* the events the call has created
CreatedByCall == {call.result[k].id : k \in 1..Len(call.result)}

\* C27: the events one chat create request asks for are persisted all or none:
\* when the request resolves to several ranges and the creation of a later
\* event fails, no event of the request remains persisted.
C27_CreatedTogether ==
    Done("chat") =>
        /\ Cardinality(CreatedByCall) \in {0, Len(call.arg)}
        /\ call.failed => CreatedByCall \cap DOMAIN db_events = {}

---------------------------------------------------------------------------
(* Events moved by a call against the whole store *)

\* the events persisted before the call whose times the call has changed
MovedByCall ==
    {i \in DOMAIN db_events \cap DOMAIN call.before.events :
        ~SameTimes(db_events[i], call.before.events[i])}

\* C28: after a successful optimize_schedule or create_exam_study_sessions no
\* event whose time the call has changed overlaps a persisted event of the
\* same owner, also not one outside the queried window.
C28_MovedEventsAreFree ==
    (Done("optimize") \/ Done("exam")) /\ ~call.failed =>
        \A i \in MovedByCall : \A j \in DOMAIN db_events :
            j # i /\ db_events[j].user = db_events[i].user
                => ~events_overlap(db_events[i], db_events[j])

---------------------------------------------------------------------------
(* The sessions returned by create_exam_study_sessions against the store *)

\* C29: after a successful create_exam_study_sessions with save_to_db, every
\* session of the returned list has the start and end persisted for it, also
\* when the conflict resolution of the same call has rescheduled a session.
C29_ReturnedAsPersisted ==
    Done("exam") /\ ~call.failed =>
        \A k \in 1..Len(call.result) :
            /\ call.result[k].id \in DOMAIN db_events
            /\ SameTimes(call.result[k], db_events[call.result[k].id])

---------------------------------------------------------------------------
(* resolve_conflicts never moves an event earlier *)

\* the events finalized in the first pass, by their place in the output
FirstPassAt ==
    {k \in 1..Len(Finalized) : Finalized[k].id \notin resolved.deferred}

\* C30: resolve_conflicts never moves an event earlier: every output event
\* starts at or after its original start and ends at or before its original
\* start plus 30 days, and an event finalized in the first pass starts at its
\* original start.
C30_NeverMovedEarlier ==
    phase = "resolved" /\ (\A i \in 1..Len(events) : IsValidEvent(events[i])) =>
        /\ \A k \in 1..Len(Finalized) :
              /\ Finalized[k].start_time >= InputOf(Finalized[k]).start_time
              /\ Finalized[k].end_time
                    <= InputOf(Finalized[k]).start_time + Horizon
        /\ \A k \in FirstPassAt :
              Finalized[k].start_time = InputOf(Finalized[k]).start_time

====
